---- MODULE Spec2Model ----
(***************************************************************************)
(* SVG -> Android Vector Drawable converter (src/src/SVG2XML/SVG2XML.ts    *)
(* and its sibling variants in src/unnamed/part_002).                      *)
(*                                                                         *)
(* Strings are TLA+ strings handled with Len, \o and SubSeq, so the text    *)
(* the converter builds is modelled character for character.  A parsed     *)
(* element is [tag, attrs, kids]; attrs is the xml2js `$` object, a        *)
(* function from attribute names to strings whose domain is empty exactly  *)
(* when the element has no attribute (xml2js then gives no `$` at all).    *)
(* Numbers are decimal fixed point, Scale units per 1.                     *)
(***************************************************************************)
EXTENDS Integers, Sequences, FiniteSets, TLC

\* ------------------------------------------------------------------------
\* Bounds of the model
\* ------------------------------------------------------------------------
\* Most top-level elements of one input document.
MaxElems == 2
\* Most <stop> children of one linearGradient.
MaxStops == 2

\* ------------------------------------------------------------------------
\* JavaScript strings
\* ------------------------------------------------------------------------
Char(s, i) == SubSeq(s, i, i)

StartsWith(s, p) == Len(s) >= Len(p) /\ SubSeq(s, 1, Len(p)) = p

EndsWith(s, p) == Len(s) >= Len(p) /\ SubSeq(s, Len(s) - Len(p) + 1, Len(s)) = p

\* s.slice(n): the string from 0-based index n on.
SliceFrom(s, n) == SubSeq(s, n + 1, Len(s))

\* s.slice(n, -1): from 0-based index n up to, not including, the last character.
SliceInner(s, n) == SubSeq(s, n + 1, Len(s) - 1)

\* The 1-based positions at which p occurs in s.
Occurrences(s, p) ==
  {i \in 1..(Len(s) - Len(p) + 1) : SubSeq(s, i, i + Len(p) - 1) = p}

\* The least element of a non-empty set of positions: the leftmost match.
First(S) == CHOOSE j \in S : \A k \in S : j <= k

Contains(s, p) == Occurrences(s, p) # {}

\* s.replace(p, ''): the first occurrence of p removed.
RemoveFirst(s, p) ==
  IF ~Contains(s, p) THEN s
  ELSE SubSeq(s, 1, First(Occurrences(s, p)) - 1)
       \o SubSeq(s, First(Occurrences(s, p)) + Len(p), Len(s))

\* s.padStart(2, '0')
PadStart2(s) == IF Len(s) >= 2 THEN s ELSE IF Len(s) = 1 THEN "0" \o s ELSE "00"

RECURSIVE JoinLines(_)
\* parts.join('\n')
JoinLines(parts) ==
  IF Len(parts) = 0 THEN ""
  ELSE IF Len(parts) = 1 THEN parts[1]
  ELSE parts[1] \o "\n" \o JoinLines(Tail(parts))

RECURSIVE SplitAt(_, _, _)
\* s.split(sep) for a one-character sep; `from` is the scan position.
SplitAt(s, sep, from) ==
  LET Cut(hits) ==
        IF hits = {} THEN <<SubSeq(s, from, Len(s))>>
        ELSE <<SubSeq(s, from, First(hits) - 1)>> \o SplitAt(s, sep, First(hits) + 1)
  IN  Cut({i \in from..Len(s) : Char(s, i) = sep})

Split(s, sep) == SplitAt(s, sep, 1)

\* ------------------------------------------------------------------------
\* JavaScript numbers, as decimal fixed point
\* ------------------------------------------------------------------------
\* Units per 1: six decimals, the precision of the circle constant 0.552285.
Scale == 1000000

DecDigits == "0123456789"
HexDigits == "0123456789abcdef"
HexUpper == "0123456789ABCDEF"

IsDigit(c) == Len(c) = 1 /\ Contains(DecDigits, c)

DigitVal(c) == (CHOOSE i \in 1..10 : Char(DecDigits, i) = c) - 1

IsHexDigit(c) == Len(c) = 1 /\ (Contains(HexDigits, c) \/ Contains(HexUpper, c))

NaN == [nan |-> TRUE, v |-> 0]
Num(v) == [nan |-> FALSE, v |-> v]

RECURSIVE DigitRun(_, _)
\* How many decimal digits s holds from position i on.
DigitRun(s, i) ==
  IF i <= Len(s) /\ IsDigit(Char(s, i)) THEN 1 + DigitRun(s, i + 1) ELSE 0

RECURSIVE DigitsValue(_)
\* The value of a string of decimal digits ("" is 0).
DigitsValue(s) ==
  IF Len(s) = 0 THEN 0
  ELSE 10 * DigitsValue(SubSeq(s, 1, Len(s) - 1)) + DigitVal(Char(s, Len(s)))

\* The first six fractional digits of a digit string, as units.
FractionUnits(s) == DigitsValue(SubSeq(s \o "000000", 1, 6))

RECURSIVE SkipSpaces(_, _)
SkipSpaces(s, i) ==
  IF i <= Len(s) /\ Char(s, i) \in {" ", "\n", "\t"} THEN SkipSpaces(s, i + 1) ELSE i

\* The decimal number that starts at position i of s and the position after
\* it: [ok, v, next].  No exponent notation.
ScanDecimal(s, i) ==
  LET Dot(p) == p <= Len(s) /\ Char(s, p) = "."
      Res(j, nInt, nFr) ==
        IF nInt + nFr = 0 THEN [ok |-> FALSE, v |-> 0, next |-> i]
        ELSE [ok |-> TRUE,
              v |-> (IF Char(s, i) = "-" THEN -1 ELSE 1)
                    * (DigitsValue(SubSeq(s, j, j + nInt - 1)) * Scale
                       + FractionUnits(SubSeq(s, j + nInt + 1, j + nInt + nFr))),
              next |-> j + nInt + (IF Dot(j + nInt) THEN 1 + nFr ELSE 0)]
      Frac(j, nInt) == Res(j, nInt, IF Dot(j + nInt) THEN DigitRun(s, j + nInt + 1) ELSE 0)
      Digits(j) == Frac(j, DigitRun(s, j))
  IN  Digits(IF i <= Len(s) /\ Char(s, i) \in {"-", "+"} THEN i + 1 ELSE i)

\* parseFloat(s): the longest numeric prefix after leading white space.
ParseFloat(s) ==
  LET Of(r) == IF r.ok THEN Num(r.v) ELSE NaN
  IN  Of(ScanDecimal(s, SkipSpaces(s, 1)))

\* Number(s): the whole string must be a number; '' is 0.
ToNumber(s) ==
  LET Whole(r) == IF r.ok /\ SkipSpaces(s, r.next) > Len(s) THEN Num(r.v) ELSE NaN
      From(i) == IF i > Len(s) THEN Num(0) ELSE Whole(ScanDecimal(s, i))
  IN  From(SkipSpaces(s, 1))

RECURSIVE TrimZeros(_)
TrimZeros(s) ==
  IF Len(s) > 0 /\ Char(s, Len(s)) = "0" THEN TrimZeros(SubSeq(s, 1, Len(s) - 1)) ELSE s

\* Six digits of a fraction given in units, zero padded.
SixDigits(u) == SubSeq("000000", 1, 6 - Len(ToString(u))) \o ToString(u)

\* String(n) of a number, as a template literal prints it.
NumToString(n) ==
  LET Mag(a) ==
        ToString(a \div Scale)
        \o (IF a % Scale = 0 THEN "" ELSE "." \o TrimZeros(SixDigits(a % Scale)))
  IN  IF n.nan THEN "NaN"
      ELSE IF n.v < 0 THEN "-" \o Mag(-n.v)
      ELSE Mag(n.v)

NumAdd(a, b) == IF a.nan \/ b.nan THEN NaN ELSE Num(a.v + b.v)
NumSub(a, b) == IF a.nan \/ b.nan THEN NaN ELSE Num(a.v - b.v)
NumNeg(a) == IF a.nan THEN NaN ELSE Num(-a.v)

\* Math.round(x): to the nearest integer, halves towards +Infinity.
MathRound(a) ==
  IF a.nan THEN NaN ELSE Num(((2 * a.v + Scale) \div (2 * Scale)) * Scale)

RECURSIVE HexOfNat(_)
HexOfNat(k) ==
  IF k < 16 THEN Char(HexDigits, k + 1)
  ELSE HexOfNat(k \div 16) \o Char(HexDigits, (k % 16) + 1)

\* n.toString(16) of an integer-valued number.
ToHex(n) ==
  IF n.nan THEN "NaN"
  ELSE IF n.v < 0 THEN "-" \o HexOfNat((-n.v) \div Scale)
  ELSE HexOfNat(n.v \div Scale)

\* ------------------------------------------------------------------------
\* JavaScript objects: the xml2js `$` attribute object and plain lookups
\* ------------------------------------------------------------------------
NoAttrs == [k \in {} |-> ""]

Has(a, k) == k \in DOMAIN a

\* a[k] is a non-empty string (what `a.k ? .. : ..` and `a.k || ..` test).
Truthy(a, k) == Has(a, k) /\ a[k] # ""

\* `${a.k}`: an absent attribute prints as undefined.
Interp(a, k) == IF Has(a, k) THEN a[k] ELSE "undefined"

\* a.k || dflt
OrElse(a, k, dflt) == IF Truthy(a, k) THEN a[k] ELSE dflt

\* a.k as an optional string: <<>> is undefined.
Opt(a, k) == IF Has(a, k) THEN <<a[k]>> ELSE <<>>

\* Properties every object literal inherits from Object.prototype: obj[key]
\* finds them although the literal does not list them.
ObjectProtoKeys ==
  {"constructor", "toString", "valueOf", "hasOwnProperty", "isPrototypeOf",
   "propertyIsEnumerable", "toLocaleString", "__proto__"}

\* What a template literal prints for such an inherited property.
ProtoText(key) ==
  IF key = "__proto__" THEN "[object Object]"
  ELSE "function " \o (IF key = "constructor" THEN "Object" ELSE key)
       \o "() { [native code] }"

RECURSIVE Repeat(_, _)
\* s.repeat(n)
Repeat(s, n) == IF n <= 0 THEN "" ELSE s \o Repeat(s, n - 1)

\* ------------------------------------------------------------------------
\* Results of a conversion function: its text, or an uncaught TypeError
\* ------------------------------------------------------------------------
Ok(text) == [threw |-> FALSE, text |-> text]
Throw == [threw |-> TRUE, text |-> ""]

RECURSIVE ConcatTexts(_)
ConcatTexts(rs) == IF Len(rs) = 0 THEN "" ELSE rs[1].text \o ConcatTexts(Tail(rs))

\* The results of a forEach that appends each text: it throws at the first
\* element that throws.
ConcatResults(rs) ==
  IF \E i \in 1..Len(rs) : rs[i].threw THEN Throw ELSE Ok(ConcatTexts(rs))

RECURSIVE IndicesFrom(_, _, _)
\* The positions i >= from of elems with elems[i].tag = tag, ascending.
IndicesFrom(elems, tag, from) ==
  IF from > Len(elems) THEN <<>>
  ELSE (IF elems[from].tag = tag THEN <<from>> ELSE <<>>)
       \o IndicesFrom(elems, tag, from + 1)

\* What xml2js gives as parent.<tag>: the children with that tag, in
\* document order (<<>> stands for an absent property).
TagIndices(elems, tag) == IndicesFrom(elems, tag, 1)

ByTag(elems, tag) ==
  LET At(ix) == [i \in 1..Len(ix) |-> elems[ix[i]]] IN At(TagIndices(elems, tag))

\* ------------------------------------------------------------------------
\* Colour codec (SVG2XML.ts)
\* ------------------------------------------------------------------------
colorMap ==
  [white |-> "#FFFFFF", black |-> "#000000", red |-> "#FF0000",
   blue |-> "#0000FF", green |-> "#00FF00"]

\* convertColor with the table of 8-digit constants.
convertColor_argb(color) ==
  IF color = <<>> \/ color[1] = "" THEN "#000000"
  ELSE IF color[1] = "none" THEN "@android:color/transparent"
  ELSE IF color[1] \in DOMAIN colorMap THEN "#FF" \o SliceFrom(colorMap[color[1]], 1)
  ELSE IF color[1] \in ObjectProtoKeys THEN ProtoText(color[1])
  ELSE IF StartsWith(color[1], "#") \/ StartsWith(color[1], "rgb") THEN color[1]
  ELSE "#000000"

\* convertColor that gives a 6-digit hex colour the alpha byte FF.
convertColor_opaque(color) ==
  IF color = <<>> \/ color[1] = "" THEN "#000000"
  ELSE IF color[1] = "none" THEN "@android:color/transparent"
  ELSE IF color[1] \in DOMAIN colorMap THEN colorMap[color[1]]
  ELSE IF color[1] \in ObjectProtoKeys THEN ProtoText(color[1])
  ELSE IF StartsWith(color[1], "#")
    THEN (IF Len(color[1]) = 7 THEN "#FF" \o SliceFrom(color[1], 1) ELSE color[1])
  ELSE IF StartsWith(color[1], "rgb") THEN color[1]
  ELSE "#000000"

\* convertColor(color): color is <<>> (undefined) or <<string>>.
convertColor(color) ==
  IF color = <<>> \/ color[1] = "" THEN "#000000"
  ELSE LET c == color[1] IN
       IF c = "none" THEN "@android:color/transparent"
       ELSE IF c \in DOMAIN colorMap THEN colorMap[c]
       ELSE IF c \in ObjectProtoKeys THEN ProtoText(c)
       ELSE IF StartsWith(c, "#") \/ StartsWith(c, "rgb") THEN c
       ELSE "#000000"

AllHex(s) == \A i \in 1..Len(s) : IsHexDigit(Char(s, i))

HexVal(c) ==
  IF Contains(HexDigits, c) THEN (CHOOSE i \in 1..16 : Char(HexDigits, i) = c) - 1
  ELSE (CHOOSE i \in 1..16 : Char(HexUpper, i) = c) - 1

\* parseInt(two hex digits, 16)
HexByte(s) == 16 * HexVal(Char(s, 1)) + HexVal(Char(s, 2))

\* hexToRgb(hex): [ok, r, g, b]; ok = FALSE is null.
hexToRgb(hex) ==
  LET Strip(s) == IF StartsWith(s, "#") THEN SliceFrom(s, 1) ELSE s
      \* the shorthand match, an optional # included, is replaced as a whole
      Full(b) ==
        IF Len(b) = 3 /\ AllHex(b)
        THEN Char(b, 1) \o Char(b, 1) \o Char(b, 2) \o Char(b, 2) \o Char(b, 3) \o Char(b, 3)
        ELSE hex
      Rgb(b) ==
        IF Len(b) = 6 /\ AllHex(b)
        THEN [ok |-> TRUE, r |-> HexByte(SubSeq(b, 1, 2)),
              g |-> HexByte(SubSeq(b, 3, 4)), b |-> HexByte(SubSeq(b, 5, 6))]
        ELSE [ok |-> FALSE, r |-> 0, g |-> 0, b |-> 0]
  IN  Rgb(Strip(Full(Strip(hex))))

\* /rgb$(\d+),\s*(\d+),\s*(\d+)$/ tried at position i: after "rgb" the pattern
\* asserts the end of the input ($) and only then asks for the digits.
RgbAt(s, i) ==
  LET Res(a, b, w1, c, w2, d) ==
        [ok |-> /\ a = Len(s) + 1
                /\ b > a /\ b <= Len(s) /\ Char(s, b) = ","
                /\ c > w1 /\ c <= Len(s) /\ Char(s, c) = ","
                /\ d > w2 /\ d = Len(s) + 1,
         r |-> SubSeq(s, a, b - 1), g |-> SubSeq(s, w1, c - 1), b |-> SubSeq(s, w2, d - 1)]
      Blue(a, b, w1, c, w2) == Res(a, b, w1, c, w2, w2 + DigitRun(s, w2))
      Gap2(a, b, w1, c) == Blue(a, b, w1, c, SkipSpaces(s, c + 1))
      Green(a, b, w1) == Gap2(a, b, w1, w1 + DigitRun(s, w1))
      Gap1(a, b) == Green(a, b, SkipSpaces(s, b + 1))
      Red(a) == Gap1(a, a + DigitRun(s, a))
  IN  Red(i + 3)

\* color.match(...): [ok, r, g, b] of the leftmost match; ok = FALSE is null.
rgbMatch(color) ==
  LET Of(hits) ==
        IF hits = {} THEN [ok |-> FALSE, r |-> "", g |-> "", b |-> ""]
        ELSE RgbAt(color, First(hits))
  IN  Of({i \in Occurrences(color, "rgb") : RgbAt(color, i).ok})

\* parseInt(digits).toString(16).padStart(2, '0')
channelHex(digits) == PadStart2(HexOfNat(DigitsValue(digits)))

\* The alpha byte cut off instead of rounded.
alphaOf_floor(opacity) ==
  LET Of(o) == PadStart2(ToHex(IF o.nan THEN NaN ELSE Num(((o.v * 255) \div Scale) * Scale)))
  IN  Of(ParseFloat(opacity))

\* Math.round(parseFloat(opacity) * 255).toString(16).padStart(2, '0')
alphaOf(opacity) ==
  LET Of(o) == PadStart2(ToHex(MathRound(IF o.nan THEN NaN ELSE Num(o.v * 255))))
  IN  Of(ParseFloat(opacity))

convertColorWithOpacity(color, opacity) ==
  LET Rgb(m, alpha) ==
        IF m.ok
        THEN "#" \o alpha \o channelHex(m.r) \o channelHex(m.g) \o channelHex(m.b)
        ELSE color
  IN  IF StartsWith(color, "#") /\ hexToRgb(color).ok
      THEN "#" \o alphaOf(opacity) \o SliceFrom(color, 1)
      ELSE Rgb(rgbMatch(color), alphaOf(opacity))

\* ------------------------------------------------------------------------
\* Transform parser (SVG2XML.ts)
\* ------------------------------------------------------------------------
IsNumChar(c) == IsDigit(c) \/ c \in {"-", "."}
IsSepChar(c) == c \in {" ", ",", "\n", "\t"}

RECURSIVE NumRun(_, _)
NumRun(s, i) == IF i <= Len(s) /\ IsNumChar(Char(s, i)) THEN 1 + NumRun(s, i + 1) ELSE 0

RECURSIVE SepRun(_, _)
SepRun(s, i) == IF i <= Len(s) /\ IsSepChar(Char(s, i)) THEN 1 + SepRun(s, i + 1) ELSE 0

\* /rotate\(([-\d.]+)(?:[\s,]+([-\d.]+)[\s,]+([-\d.]+))?\)/ tried at position
\* i: [ok, g1, g2, g3], g2 = g3 = "" when the optional part did not match.
RotateAt(s, i) ==
  LET None == [ok |-> FALSE, g1 |-> "", g2 |-> "", g3 |-> ""]
      Res(a, b, c, d, e, f) ==
        IF b = a THEN None
        ELSE IF b <= Len(s) /\ Char(s, b) = ")"
          THEN [ok |-> TRUE, g1 |-> SubSeq(s, a, b - 1), g2 |-> "", g3 |-> ""]
        ELSE IF c > b /\ d > c /\ e > d /\ f > e /\ f <= Len(s) /\ Char(s, f) = ")"
          THEN [ok |-> TRUE, g1 |-> SubSeq(s, a, b - 1),
                g2 |-> SubSeq(s, c, d - 1), g3 |-> SubSeq(s, e, f - 1)]
        ELSE None
      Third(a, b, c, d, e) == Res(a, b, c, d, e, e + NumRun(s, e))
      Sep2(a, b, c, d) == Third(a, b, c, d, d + SepRun(s, d))
      Second(a, b, c) == Sep2(a, b, c, c + NumRun(s, c))
      Sep1(a, b) == Second(a, b, b + SepRun(s, b))
      FirstNum(a) == Sep1(a, a + NumRun(s, a))
  IN  FirstNum(i + 7)

\* processTransform that reads the angle after the first "rotate(" whatever
\* follows it, and no pivot.
processTransform_angle(transform) ==
  IF Occurrences(transform, "rotate(") = {}
  THEN [rotation |-> Num(0), pivotX |-> <<>>, pivotY |-> <<>>]
  ELSE [rotation |-> ParseFloat(SliceFrom(transform, First(Occurrences(transform, "rotate(")) + 6)),
        pivotX |-> <<>>, pivotY |-> <<>>]

\* processTransform(transform): [rotation, pivotX, pivotY]; a pivot is <<>>
\* (undefined) or <<number>>.
processTransform(transform) ==
  LET none == [rotation |-> Num(0), pivotX |-> <<>>, pivotY |-> <<>>]
      Of(m) ==
        IF m.g2 # "" /\ m.g3 # ""
        THEN [rotation |-> ParseFloat(m.g1),
              pivotX |-> <<ParseFloat(m.g2)>>, pivotY |-> <<ParseFloat(m.g3)>>]
        ELSE [none EXCEPT !.rotation = ParseFloat(m.g1)]
      At(hits) == IF hits = {} THEN none ELSE Of(RotateAt(transform, First(hits)))
  IN  IF transform = "" THEN none
      ELSE At({i \in Occurrences(transform, "rotate(") : RotateAt(transform, i).ok})

\* The <group ...> wrapper convertPath and convertRect put around a rotated
\* shape: [start, end], both "" when there is no rotation.
rotationGroup(attrs) ==
  LET Wrap(t) ==
        IF t.rotation # Num(0)
        THEN [start |->
                "    <group\n        android:rotation=\"" \o NumToString(t.rotation) \o "\""
                \o (IF t.pivotX # <<>>
                    THEN "\n        android:pivotX=\"" \o NumToString(t.pivotX[1]) \o "\""
                    ELSE "")
                \o (IF t.pivotY # <<>>
                    THEN "\n        android:pivotY=\"" \o NumToString(t.pivotY[1]) \o "\""
                    ELSE "")
                \o ">\n",
              end |-> "    </group>\n"]
        ELSE [start |-> "", end |-> ""]
  IN  IF Truthy(attrs, "transform") THEN Wrap(processTransform(attrs["transform"]))
      ELSE [start |-> "", end |-> ""]

\* ------------------------------------------------------------------------
\* Parsed elements
\* ------------------------------------------------------------------------
Elem(tag, attrs, kids) == [tag |-> tag, attrs |-> attrs, kids |-> kids]

\* ------------------------------------------------------------------------
\* Gradients (SVG2XML.ts)
\* ------------------------------------------------------------------------
\* An <item> whose offset has lost its percent sign.
gradientItem_fraction(stop) ==
  IF stop.attrs = NoAttrs THEN Throw
  ELSE Ok("                <item\n                    android:offset=\""
          \o RemoveFirst(Interp(stop.attrs, "offset"), "%")
          \o "\"\n                    android:color=\"" \o Interp(stop.attrs, "stop-color")
          \o "\" />")

\* One <item> of convertGradient's stop.map callback.
gradientItem(stop) ==
  IF stop.attrs = NoAttrs THEN Throw
  ELSE LET a == stop.attrs IN
       IF Truthy(a, "stop-opacity")
       THEN \* convertColorWithOpacity(undefined, ..) fails at color.startsWith
            IF ~Has(a, "stop-color") THEN Throw
            ELSE Ok("                <item\n                    android:offset=\""
                    \o Interp(a, "offset") \o "\"\n                    android:color=\""
                    \o convertColorWithOpacity(a["stop-color"], a["stop-opacity"])
                    \o "\" />")
       ELSE Ok("                <item\n                    android:offset=\""
               \o Interp(a, "offset") \o "\"\n                    android:color=\""
               \o Interp(a, "stop-color") \o "\" />")

convertGradient(gradient) ==
  LET Block(items) ==
        IF \E i \in 1..Len(items) : items[i].threw THEN Throw
        ELSE Ok("        <aapt:attr name=\"android:fillColor\">\n            <gradient\n                android:type=\"linear\"\n                android:startX=\""
                \o OrElse(gradient.attrs, "x1", "0%")
                \o "\"\n                android:startY=\"" \o OrElse(gradient.attrs, "y1", "0%")
                \o "\"\n                android:endX=\"" \o OrElse(gradient.attrs, "x2", "100%")
                \o "\"\n                android:endY=\"" \o OrElse(gradient.attrs, "y2", "0%")
                \o "\">\n                "
                \o JoinLines([i \in 1..Len(items) |-> items[i].text])
                \o "\n            </gradient>\n        </aapt:attr>")
      \* without <stop> children gradient.stop is undefined: .map throws
      Stops(stops) ==
        IF Len(stops) = 0 THEN Throw
        ELSE Block([i \in 1..Len(stops) |-> gradientItem(stops[i])])
  IN  IF Interp(gradient.attrs, "type") \in {"linear", "linearGradient"}
      THEN Stops(ByTag(gradient.kids, "stop"))
      ELSE Ok("")

\* ------------------------------------------------------------------------
\* Shapes (SVG2XML.ts)
\* ------------------------------------------------------------------------
strokeAttrs(a) ==
  (IF Truthy(a, "stroke")
   THEN "\n        android:strokeColor=\"" \o convertColor(Opt(a, "stroke")) \o "\""
   ELSE "")
  \o (IF Truthy(a, "stroke-width")
      THEN "\n        android:strokeWidth=\"" \o a["stroke-width"] \o "\""
      ELSE "")

convertPath(path, gm) ==
  LET a     == path.attrs
      isUrl == Truthy(a, "fill") /\ StartsWith(a["fill"], "url(#")
      id    == SliceInner(a["fill"], 5)
      \* the path with a flat fillColor, inside its rotation wrapper grp
      Flat(grp) ==
        Ok(grp.start
           \o "    <path\n        android:pathData=\"" \o Interp(a, "d")
           \o "\"\n        android:fillColor=\"" \o convertColor(Opt(a, "fill")) \o "\""
           \o strokeAttrs(a) \o " />\n"
           \o grp.end)
      \* the path around the gradient block g
      Filled(grp, g) ==
        IF g.threw THEN Throw
        ELSE Ok(grp.start
                \o "    <path\n        android:pathData=\"" \o Interp(a, "d") \o "\""
                \o strokeAttrs(a) \o ">\n" \o g.text \o "\n    </path>\n"
                \o grp.end)
  IN  IF path.attrs = NoAttrs THEN Throw
      ELSE IF isUrl /\ id \in DOMAIN gm THEN Filled(rotationGroup(a), convertGradient(gm[id]))
      ELSE Flat(rotationGroup(a))

\* parseFloat(a.k); parseFloat(undefined) is NaN.
FloatAttr(a, k) == IF Has(a, k) THEN ParseFloat(a[k]) ELSE NaN

\* The circle constant 0.552285, in units.
Kappa == 552285

\* Half the radius in place of r * 0.552285.
TimesKappa_half(r) == IF r.nan THEN NaN ELSE Num(r.v \div 2)

\* r * 0.552285
TimesKappa(r) ==
  LET P(m) ==
        (m \div Scale) * Kappa
        + ((m % Scale) * (Kappa \div 1000)) \div 1000
        + ((m % Scale) * (Kappa % 1000)) \div Scale
  IN  IF r.nan THEN NaN ELSE Num(IF r.v < 0 THEN -P(-r.v) ELSE P(r.v))

N(n) == NumToString(n)

\* The four Bezier arcs of a circle; k is r * 0.552285.
circlePathData(cx, cy, r, k) ==
  "M " \o N(cx) \o " " \o N(NumSub(cy, r)) \o " "
  \o "C " \o N(NumAdd(cx, k)) \o " " \o N(NumSub(cy, r)) \o " "
     \o N(NumAdd(cx, r)) \o " " \o N(NumSub(cy, k)) \o " "
     \o N(NumAdd(cx, r)) \o " " \o N(cy) \o " "
  \o "C " \o N(NumAdd(cx, r)) \o " " \o N(NumAdd(cy, k)) \o " "
     \o N(NumAdd(cx, k)) \o " " \o N(NumAdd(cy, r)) \o " "
     \o N(cx) \o " " \o N(NumAdd(cy, r)) \o " "
  \o "C " \o N(NumSub(cx, k)) \o " " \o N(NumAdd(cy, r)) \o " "
     \o N(NumSub(cx, r)) \o " " \o N(NumAdd(cy, k)) \o " "
     \o N(NumSub(cx, r)) \o " " \o N(cy) \o " "
  \o "C " \o N(NumSub(cx, r)) \o " " \o N(NumSub(cy, k)) \o " "
     \o N(NumSub(cx, k)) \o " " \o N(NumSub(cy, r)) \o " "
     \o N(cx) \o " " \o N(NumSub(cy, r)) \o " Z"

\* pathData of a circle element's attributes.
circleData(a) ==
  circlePathData(FloatAttr(a, "cx"), FloatAttr(a, "cy"), FloatAttr(a, "r"),
                 TimesKappa(FloatAttr(a, "r")))

convertCircle(circle) ==
  LET a == circle.attrs
  IN  IF circle.attrs = NoAttrs THEN Throw
      ELSE Ok("    <path\n        android:fillColor=\""
              \o convertColor(<<OrElse(a, "fill", "#000000")>>) \o "\""
              \o strokeAttrs(a)
              \o "\n        android:pathData=\"" \o circleData(a) \o "\" />\n")

\* The outline of a rectangle, square or with rounded corners.
rectPathData(x, y, width, height, rx, ry, xw, yh) ==
  IF rx = Num(0) /\ ry = Num(0)
  THEN "M " \o N(x) \o " " \o N(y) \o " h " \o N(width) \o " v " \o N(height)
       \o " h " \o N(NumNeg(width)) \o " Z"
  ELSE "M " \o N(NumAdd(x, rx)) \o " " \o N(y) \o " "
       \o "L " \o N(NumSub(xw, rx)) \o " " \o N(y) \o " "
       \o "Q " \o N(xw) \o " " \o N(y) \o " " \o N(xw) \o " " \o N(NumAdd(y, ry)) \o " "
       \o "L " \o N(xw) \o " " \o N(NumSub(yh, ry)) \o " "
       \o "Q " \o N(xw) \o " " \o N(yh) \o " " \o N(NumSub(xw, rx)) \o " " \o N(yh) \o " "
       \o "L " \o N(NumAdd(x, rx)) \o " " \o N(yh) \o " "
       \o "Q " \o N(x) \o " " \o N(yh) \o " " \o N(x) \o " " \o N(NumSub(yh, ry)) \o " "
       \o "L " \o N(x) \o " " \o N(NumAdd(y, ry)) \o " "
       \o "Q " \o N(x) \o " " \o N(y) \o " " \o N(NumAdd(x, rx)) \o " " \o N(y) \o " Z"

\* pathData with ry read on its own, '0' when absent.
rectData_ryZero(a) ==
  rectPathData(ParseFloat(OrElse(a, "x", "0")), ParseFloat(OrElse(a, "y", "0")),
               FloatAttr(a, "width"), FloatAttr(a, "height"),
               ParseFloat(OrElse(a, "rx", "0")),
               ParseFloat(OrElse(a, "ry", "0")),
               NumAdd(ParseFloat(OrElse(a, "x", "0")), FloatAttr(a, "width")),
               NumAdd(ParseFloat(OrElse(a, "y", "0")), FloatAttr(a, "height")))

\* pathData of a rect element's attributes.
rectData(a) ==
  rectPathData(ParseFloat(OrElse(a, "x", "0")), ParseFloat(OrElse(a, "y", "0")),
               FloatAttr(a, "width"), FloatAttr(a, "height"),
               ParseFloat(OrElse(a, "rx", "0")),
               ParseFloat(OrElse(a, "ry", OrElse(a, "rx", "0"))),
               NumAdd(ParseFloat(OrElse(a, "x", "0")), FloatAttr(a, "width")),
               NumAdd(ParseFloat(OrElse(a, "y", "0")), FloatAttr(a, "height")))

convertRect(rect) ==
  LET a == rect.attrs
      Shape(grp, data) ==
        Ok(grp.start
           \o "    <path\n        android:fillColor=\"" \o convertColor(Opt(a, "fill")) \o "\""
           \o strokeAttrs(a)
           \o "\n        android:pathData=\"" \o data \o "\" />\n"
           \o grp.end)
  IN  IF rect.attrs = NoAttrs THEN Throw ELSE Shape(rotationGroup(a), rectData(a))

\* convertLine printing the stroke-width attribute as it is, without the '1'.
convertLine_bare(line) ==
  IF line.attrs = NoAttrs THEN Throw
  ELSE LET a == line.attrs
           linePath == "M" \o Interp(a, "x1") \o "," \o Interp(a, "y1")
                       \o " L" \o Interp(a, "x2") \o "," \o Interp(a, "y2")
       IN  Ok("    <path\n      android:pathData=\"" \o linePath
              \o "\"\n      android:strokeColor=\"" \o convertColor(Opt(a, "stroke"))
              \o "\"\n      android:strokeWidth=\"" \o Interp(a, "stroke-width") \o "\" />\n")

convertLine(line) ==
  IF line.attrs = NoAttrs THEN Throw
  ELSE LET a == line.attrs
           strokeWidth == OrElse(a, "stroke-width", "1")
           linePath == "M" \o Interp(a, "x1") \o "," \o Interp(a, "y1")
                       \o " L" \o Interp(a, "x2") \o "," \o Interp(a, "y2")
       IN  Ok("    <path\n      android:pathData=\"" \o linePath
              \o "\"\n      android:strokeColor=\"" \o convertColor(Opt(a, "stroke"))
              \o "\"\n      android:strokeWidth=\"" \o strokeWidth \o "\" />\n")

\* ------------------------------------------------------------------------
\* Animations (SVG2XML.ts)
\* ------------------------------------------------------------------------
propertyMap == [opacity |-> "alpha", transform |-> "rotation", cx |-> "x", cy |-> "y", r |-> "radius"]

\* getPropertyName(svgAttribute), svgAttribute <<>> (undefined) or <<string>>,
\* as `${..}` prints it.
getPropertyName(svgAttribute) ==
  IF svgAttribute = <<>> THEN "undefined"
  ELSE LET k == svgAttribute[1] IN
       IF k \in DOMAIN propertyMap THEN propertyMap[k]
       ELSE IF k \in ObjectProtoKeys THEN ProtoText(k)
       ELSE k

convertAnimation(animation) ==
  IF animation.attrs = NoAttrs THEN Throw
  ELSE LET a == animation.attrs
       IN  Ok("    <objectAnimator\n      android:propertyName=\""
              \o getPropertyName(Opt(a, "attributeName"))
              \o "\"\n      android:duration=\"" \o OrElse(a, "dur", "1000")
              \o "\"\n      android:valueFrom=\"" \o OrElse(a, "from", "0")
              \o "\"\n      android:valueTo=\"" \o OrElse(a, "to", "1")
              \o "\"\n      android:valueType=\"floatType\"\n      android:repeatCount=\""
              \o OrElse(a, "repeatCount", "infinite") \o "\" />\n")

\* ------------------------------------------------------------------------
\* Group walker (SVG2XML.ts)
\* ------------------------------------------------------------------------
\* text.split('\n').map(line => (line ? indent + line : line)).join('\n')
IndentLines(text, indent) ==
  LET Join(lines) ==
        JoinLines([i \in 1..Len(lines) |->
                     IF lines[i] # "" THEN indent \o lines[i] ELSE lines[i]])
  IN  Join(Split(text, "\n"))

IndentResult(r, indent) == IF r.threw THEN Throw ELSE Ok(IndentLines(r.text, indent))

RECURSIVE handleGroup_lines(_, _, _)
\* handleGroup with a forEach over group.line as well.
handleGroup_lines(group, indentLevel, gm) ==
  LET a == group.attrs
      baseIndent  == Repeat("    ", indentLevel)
      innerIndent == Repeat("    ", indentLevel + 1)
      Attrs(t) ==
        (IF t.rotation # Num(0)
         THEN " android:rotation=\"" \o NumToString(t.rotation) \o "\"" ELSE "")
        \o (IF t.pivotX # <<>>
            THEN " android:pivotX=\"" \o NumToString(t.pivotX[1]) \o "\"" ELSE "")
        \o (IF t.pivotY # <<>>
            THEN " android:pivotY=\"" \o NumToString(t.pivotY[1]) \o "\"" ELSE "")
      Wrap(body, groupAttrs) ==
        IF body.threw THEN Throw
        ELSE Ok(baseIndent \o "<group" \o groupAttrs \o ">\n"
                \o body.text \o baseIndent \o "</group>\n")
  IN  IF group.attrs = NoAttrs THEN Throw
      ELSE Wrap(ConcatResults(
                  [i \in 1..Len(ByTag(group.kids, "path")) |->
                     IndentResult(convertPath(ByTag(group.kids, "path")[i], gm), innerIndent)]
                  \o [i \in 1..Len(ByTag(group.kids, "circle")) |->
                        IndentResult(convertCircle(ByTag(group.kids, "circle")[i]), innerIndent)]
                  \o [i \in 1..Len(ByTag(group.kids, "rect")) |->
                        IndentResult(convertRect(ByTag(group.kids, "rect")[i]), innerIndent)]
                  \o [i \in 1..Len(ByTag(group.kids, "line")) |->
                        IndentResult(convertLine(ByTag(group.kids, "line")[i]), innerIndent)]
                  \o [i \in 1..Len(ByTag(group.kids, "g")) |->
                        handleGroup_lines(ByTag(group.kids, "g")[i], indentLevel + 1, gm)]),
                IF Truthy(a, "transform") THEN Attrs(processTransform(a["transform"])) ELSE "")

RECURSIVE handleGroup(_, _, _)
handleGroup(group, indentLevel, gm) ==
  LET a == group.attrs
      baseIndent  == Repeat("    ", indentLevel)
      innerIndent == Repeat("    ", indentLevel + 1)
      Attrs(t) ==
        (IF t.rotation # Num(0)
         THEN " android:rotation=\"" \o NumToString(t.rotation) \o "\"" ELSE "")
        \o (IF t.pivotX # <<>>
            THEN " android:pivotX=\"" \o NumToString(t.pivotX[1]) \o "\"" ELSE "")
        \o (IF t.pivotY # <<>>
            THEN " android:pivotY=\"" \o NumToString(t.pivotY[1]) \o "\"" ELSE "")
      Wrap(body, groupAttrs) ==
        IF body.threw THEN Throw
        ELSE Ok(baseIndent \o "<group" \o groupAttrs \o ">\n"
                \o body.text \o baseIndent \o "</group>\n")
  IN  IF group.attrs = NoAttrs THEN Throw
      ELSE Wrap(ConcatResults(
                  [i \in 1..Len(ByTag(group.kids, "path")) |->
                     IndentResult(convertPath(ByTag(group.kids, "path")[i], gm), innerIndent)]
                  \o [i \in 1..Len(ByTag(group.kids, "circle")) |->
                        IndentResult(convertCircle(ByTag(group.kids, "circle")[i]), innerIndent)]
                  \o [i \in 1..Len(ByTag(group.kids, "rect")) |->
                        IndentResult(convertRect(ByTag(group.kids, "rect")[i]), innerIndent)]
                  \o [i \in 1..Len(ByTag(group.kids, "g")) |->
                        handleGroup(ByTag(group.kids, "g")[i], indentLevel + 1, gm)]),
                IF Truthy(a, "transform") THEN Attrs(processTransform(a["transform"])) ELSE "")

\* ------------------------------------------------------------------------
\* Filter variant of the converter (unnamed/part_002, lines 1-598)
\* ------------------------------------------------------------------------
\* hexToRgb, convertColorWithOpacity, processTransform, convertGradient,
\* getPropertyName and convertAnimation of this file have the text of their
\* SVG2XML.ts namesakes; the definitions above stand for both.
F_colorMap ==
  [white |-> "#FFFFFFFF", black |-> "#FF000000", red |-> "#FFFF0000",
   blue |-> "#FF0000FF", green |-> "#FF00FF00"]

F_convertColor(color) ==
  IF color = <<>> \/ color[1] = "" THEN "#FF373737"
  ELSE LET c == color[1] IN
       IF c = "none" THEN "@android:color/transparent"
       ELSE IF c = "#373737" THEN "#FF373737"
       ELSE IF c = "white" THEN "#FFFFFFFF"
       ELSE IF c \in DOMAIN F_colorMap THEN F_colorMap[c]
       ELSE IF c \in ObjectProtoKeys THEN ProtoText(c)
       ELSE IF StartsWith(c, "#") THEN (IF Len(c) = 7 THEN "#FF" \o SliceFrom(c, 1) ELSE c)
       ELSE "#FF373737"

\* filters[filterId] of the plain object `filters`: <<>> when the lookup is
\* falsy.  An id naming a property of Object.prototype finds that property,
\* a value without feDropShadow, although no filter was stored under it.
F_lookup(fs, filterId) ==
  IF filterId \in DOMAIN fs THEN <<fs[filterId]>>
  ELSE IF filterId \in ObjectProtoKeys THEN <<Elem("function", NoAttrs, <<>>)>>
  ELSE <<>>

\* convertFilter without the blur offset of the default shadow.
F_convertFilter_flat(filter) ==
  LET drops == ByTag(filter.kids, "feDropShadow")
      s     == ByTag(filter.kids, "feDropShadow")[1].attrs
  IN  IF Len(drops) = 0
      THEN [threw |-> FALSE, shadowColor |-> "#33373737", dx |-> Num(0), dy |-> Num(0)]
      ELSE IF s = NoAttrs
      THEN [threw |-> TRUE, shadowColor |-> "", dx |-> NaN, dy |-> NaN]
      ELSE [threw |-> FALSE,
            shadowColor |->
              convertColorWithOpacity(OrElse(s, "flood-color", "#000000"),
                                      NumToString(ParseFloat(OrElse(s, "flood-opacity", "0.2")))),
            dx |-> ParseFloat(OrElse(s, "dx", "0")),
            dy |-> NumAdd(ParseFloat(OrElse(s, "dy", "0")),
                          ParseFloat(OrElse(s, "stdDeviation", "2")))]

\* convertFilter(filter): [threw, shadowColor, dx, dy].
F_convertFilter(filter) ==
  LET drops == ByTag(filter.kids, "feDropShadow")
      s     == ByTag(filter.kids, "feDropShadow")[1].attrs
  IN  IF Len(drops) = 0
      THEN [threw |-> FALSE, shadowColor |-> "#33373737", dx |-> Num(0), dy |-> Num(4 * Scale)]
      ELSE IF s = NoAttrs
      THEN [threw |-> TRUE, shadowColor |-> "", dx |-> NaN, dy |-> NaN]
      ELSE [threw |-> FALSE,
            shadowColor |->
              convertColorWithOpacity(OrElse(s, "flood-color", "#000000"),
                                      NumToString(ParseFloat(OrElse(s, "flood-opacity", "0.2")))),
            dx |-> ParseFloat(OrElse(s, "dx", "0")),
            dy |-> NumAdd(ParseFloat(OrElse(s, "dy", "0")),
                          ParseFloat(OrElse(s, "stdDeviation", "2")))]

\* The two translate attributes every shadow carries.
F_translate(e) ==
  "\n      android:translateX=\"" \o N(e.dx) \o "\"\n      android:translateY=\"" \o N(e.dy) \o "\""

F_applyFilter(fs, filterId) ==
  LET Effect(e) == IF e.threw THEN Throw ELSE Ok(F_translate(e))
  IN  IF F_lookup(fs, filterId) = <<>> THEN Ok("")
      ELSE Effect(F_convertFilter(F_lookup(fs, filterId)[1]))

RECURSIVE NonQuoteRun(_, _)
\* How many characters other than " s holds from position i on.
NonQuoteRun(s, i) ==
  IF i <= Len(s) /\ Char(s, i) # "\"" THEN 1 + NonQuoteRun(s, i + 1) ELSE 0

\* originalXml.match(/android:pathData="([^"]+)"/): <<>> or <<group 1>>.
F_pathDataMatch(xml) ==
  LET Hit(i) == NonQuoteRun(xml, i + 18) > 0 /\ i + 18 + NonQuoteRun(xml, i + 18) <= Len(xml)
      Of(hits) ==
        IF hits = {} THEN <<>>
        ELSE <<SubSeq(xml, First(hits) + 18, First(hits) + 17 + NonQuoteRun(xml, First(hits) + 18))>>
  IN  Of({i \in Occurrences(xml, "android:pathData=\"") : Hit(i)})

F_applyDropShadow(fs, originalXml, filterId, element, tagType) ==
  LET a == element.attrs
      \* `${shadowXml}\n${originalXml}`
      Layer(shadowXml) == Ok(shadowXml \o "\n" \o originalXml)
      \* the switch over tagType, for the shadow e of the filter
      Shadow(e, pathData) ==
        IF e.threw THEN Throw
        ELSE IF tagType = "path"
          THEN IF pathData = "" THEN Ok(originalXml)
               ELSE Layer("\n    <path\n      android:fillColor=\"" \o e.shadowColor
                          \o "\"\n      android:pathData=\"" \o pathData \o "\""
                          \o F_translate(e) \o " />")
        ELSE IF tagType = "circle"
          THEN Layer("\n    <circle\n      android:cx=\"" \o Interp(a, "cx")
                     \o "\"\n      android:cy=\"" \o Interp(a, "cy")
                     \o "\"\n      android:r=\"" \o Interp(a, "r")
                     \o "\"\n      android:fillColor=\"" \o e.shadowColor \o "\""
                     \o F_translate(e) \o " />")
        ELSE IF tagType = "rect"
          THEN Layer("\n    <rect\n      android:x=\"" \o Interp(a, "x")
                     \o "\"\n      android:y=\"" \o Interp(a, "y")
                     \o "\"\n      android:width=\"" \o Interp(a, "width")
                     \o "\"\n      android:height=\"" \o Interp(a, "height")
                     \o "\"\n      android:fillColor=\"" \o e.shadowColor \o "\""
                     \o F_translate(e) \o " />")
        ELSE IF tagType = "line"
          THEN Layer("\n    <path\n      android:pathData=\"M " \o Interp(a, "x1") \o ","
                     \o Interp(a, "y1") \o " L " \o Interp(a, "x2") \o "," \o Interp(a, "y2")
                     \o "\"\n      android:strokeColor=\"" \o e.shadowColor
                     \o "\"\n      android:strokeWidth=\"" \o OrElse(a, "stroke-width", "1") \o "\""
                     \o F_translate(e) \o " />")
        ELSE Layer("")
  IN  IF F_lookup(fs, filterId) = <<>> THEN Ok(originalXml)
      ELSE Shadow(F_convertFilter(F_lookup(fs, filterId)[1]),
                  \* pathDataMatch ? pathDataMatch[1] : element.$.d || ''
                  IF F_pathDataMatch(originalXml) # <<>> THEN F_pathDataMatch(originalXml)[1]
                  ELSE OrElse(a, "d", ""))

\* The filterEffect of convertCircle, convertLine and convertPath.
F_filterEffect(a, fs) ==
  IF Truthy(a, "filter") THEN F_applyFilter(fs, SliceInner(a["filter"], 5)) ELSE Ok("")

F_strokeAttrs(a) ==
  (IF Truthy(a, "stroke")
   THEN "\n        android:strokeColor=\"" \o F_convertColor(Opt(a, "stroke")) \o "\""
   ELSE "")
  \o (IF Truthy(a, "stroke-width")
      THEN "\n        android:strokeWidth=\"" \o a["stroke-width"] \o "\""
      ELSE "")

F_convertCircle(circle, fs) ==
  LET a == circle.attrs
      Shape(fe, data) ==
        IF fe.threw THEN Throw
        ELSE Ok("    <path\n        android:fillColor=\""
                \o F_convertColor(<<OrElse(a, "fill", "#000000")>>) \o "\""
                \o F_strokeAttrs(a)
                \o "\n        android:pathData=\"" \o data \o "\"" \o fe.text \o " />\n")
  IN  IF circle.attrs = NoAttrs THEN Throw ELSE Shape(F_filterEffect(a, fs), circleData(a))

F_convertLine(line, fs) ==
  LET a == line.attrs
      Shape(fe) ==
        IF fe.threw THEN Throw
        ELSE Ok("    <path\n      android:pathData=\"M" \o Interp(a, "x1") \o "," \o Interp(a, "y1")
                \o " L" \o Interp(a, "x2") \o "," \o Interp(a, "y2")
                \o "\"\n      android:strokeColor=\"" \o F_convertColor(Opt(a, "stroke"))
                \o "\"\n      android:strokeWidth=\"" \o OrElse(a, "stroke-width", "1") \o "\""
                \o fe.text \o " />\n")
  IN  IF line.attrs = NoAttrs THEN Throw ELSE Shape(F_filterEffect(a, fs))

\* convertPath(path) with isFirstGroup left at its default, false.
F_convertPath(path, fs) ==
  LET a == path.attrs
      Shape(grp, fe) ==
        IF fe.threw THEN Throw
        ELSE Ok(grp.start
                \o "    <path\n        android:pathData=\"" \o Interp(a, "d") \o "\""
                \o (IF Truthy(a, "fill")
                    THEN "\n        android:fillColor=\"" \o F_convertColor(Opt(a, "fill")) \o "\""
                    ELSE "")
                \o F_strokeAttrs(a) \o fe.text \o " />\n"
                \o grp.end)
  IN  IF path.attrs = NoAttrs THEN Throw
      ELSE Shape(rotationGroup(a), F_filterEffect(a, fs))

\* applyFilter[filterId] || '': a property of the function object applyFilter.
F_functionProperty(filterId) ==
  IF filterId = "name" THEN "applyFilter"
  ELSE IF filterId = "length" THEN "1"
  ELSE IF filterId \in ObjectProtoKeys THEN ProtoText(filterId)
  ELSE ""

F_convertRect(rect) ==
  LET a == rect.attrs
      Shape(grp, data) ==
        Ok(grp.start
           \o "    <path\n        android:fillColor=\"" \o F_convertColor(Opt(a, "fill")) \o "\""
           \o F_strokeAttrs(a)
           \o "\n        android:pathData=\"" \o data \o "\""
           \o (IF Truthy(a, "filter") THEN F_functionProperty(SliceInner(a["filter"], 5)) ELSE "")
           \o " />\n"
           \o grp.end)
  IN  IF rect.attrs = NoAttrs THEN Throw ELSE Shape(rotationGroup(a), rectData(a))

\* processElement(element, converter, tagType); xml is converter(element).
F_processElement(element, xml, tagType, fs) ==
  IF xml.threw THEN Throw
  ELSE IF Truthy(element.attrs, "filter")
  THEN F_applyDropShadow(fs, xml.text, SliceInner(element.attrs["filter"], 5),
                         element, tagType)
  ELSE xml

\* `${pivot ? ..}`: a pivot that is undefined, 0 or NaN prints nothing.
F_pivotAttr(t, name, pivot) ==
  IF pivot # <<>> /\ ~pivot[1].nan /\ pivot[1].v # 0
  THEN " android:" \o name \o "=\"" \o NumToString(pivot[1]) \o "\""
  ELSE ""

RECURSIVE F_handleGroup(_, _, _)
F_handleGroup(group, indentLevel, fs) ==
  LET a == group.attrs
      \* `<group android:rotation=...>` for the transform t
      Open(t) ==
        "<group android:rotation=\"" \o NumToString(t.rotation) \o "\""
        \o F_pivotAttr(t, "pivotX", t.pivotX) \o F_pivotAttr(t, "pivotY", t.pivotY) \o ">\n"
      \* the wrapper is printed only for a group with a transform
      Wrap(body, open) ==
        IF body.threw THEN Throw
        ELSE IF Truthy(a, "transform") THEN Ok(open \o body.text \o "</group>\n")
        ELSE body
  IN  IF group.attrs = NoAttrs THEN Throw
      ELSE Wrap(ConcatResults(
                  [i \in 1..Len(ByTag(group.kids, "path")) |->
                     F_convertPath(ByTag(group.kids, "path")[i], fs)]
                  \o [i \in 1..Len(ByTag(group.kids, "circle")) |->
                        F_convertCircle(ByTag(group.kids, "circle")[i], fs)]
                  \o [i \in 1..Len(ByTag(group.kids, "rect")) |->
                        F_convertRect(ByTag(group.kids, "rect")[i])]
                  \o [i \in 1..Len(ByTag(group.kids, "g")) |->
                        F_handleGroup(ByTag(group.kids, "g")[i], indentLevel + 1, fs)]),
                IF Truthy(a, "transform") THEN Open(processTransform(a["transform"])) ELSE "")

\* ------------------------------------------------------------------------
\* Input documents
\* ------------------------------------------------------------------------
\* A document is [xml, root]: xml = "malformed" makes parseString report an
\* error; otherwise root is the parsed root element.
Doc(root) == [xml |-> "ok", root |-> root]
MalformedDoc == [xml |-> "malformed", root |-> Elem("svg", NoAttrs, <<>>)]

SeqsUpTo(pool, n) == UNION {[1..k -> pool] : k \in 0..n}

RootAttrs == [width |-> "100", height |-> "100", viewBox |-> "0 0 100 100"]

\* <svg width="100" height="100" viewBox="0 0 100 100"> around the children.
Svg(kids) == Doc(Elem("svg", RootAttrs, kids))

Stop0 == Elem("stop", ("offset" :> "0%") @@ ("stop-color" :> "#ff0000"), <<>>)
Stop1 ==
  Elem("stop",
       ("offset" :> "100%") @@ ("stop-color" :> "#0000ff") @@ ("stop-opacity" :> "0.5"),
       <<>>)
StopPool == {Stop0, Stop1}

Grad(id, stops) == Elem("linearGradient", [id |-> id], stops)
BareGradient == Elem("linearGradient", NoAttrs, <<Stop0>>)

\* A <defs> block around the definitions; none for <<>>.
Defs(defs) == IF defs = <<>> THEN <<>> ELSE <<Elem("defs", NoAttrs, defs)>>

PathG1 == Elem("path", [d |-> "M10 10 H 90 V 90 H 10 L 10 10", fill |-> "url(#g1)"], <<>>)
PathG2 == Elem("path", [d |-> "M1 1", fill |-> "url(#g2)", stroke |-> "red"], <<>>)
RectG1 ==
  Elem("rect", [x |-> "10", y |-> "10", width |-> "80", height |-> "80", fill |-> "url(#g1)"], <<>>)
CircleG1 == Elem("circle", [cx |-> "50", cy |-> "50", r |-> "40", fill |-> "url(#g1)"], <<>>)
GradientShapes == {PathG1, PathG2, RectG1}

\* Documents whose shapes refer to gradients that the document defines or
\* does not define.
GradientDocs ==
  {Svg(Defs(g) \o e) :
     g \in {<<>>, <<Grad("g1", <<Stop0, Stop1>>)>>, <<Grad("g2", <<Stop1>>)>>},
     e \in SeqsUpTo(GradientShapes, MaxElems)}

\* One gradient with every sequence of stops, none included.
StopDocs ==
  {Svg(Defs(<<Grad("g1", st)>>) \o e) :
     st \in SeqsUpTo(StopPool, MaxStops), e \in {<<PathG1>>, <<CircleG1, PathG1>>}}

\* Unusual <defs> blocks: an id defined twice, explicit coordinates, a
\* type attribute of the element's own, a gradient without attributes after
\* a regular one.
DefsDocs ==
  {Svg(Defs(g) \o <<PathG1, PathG2>>) :
     g \in {<<Grad("g1", <<Stop0>>), Grad("g1", <<Stop1>>)>>,
            <<Elem("linearGradient",
                   [id |-> "g1", x1 |-> "0%", y1 |-> "0%", x2 |-> "100%", y2 |-> "100%"],
                   <<Stop0, Stop1>>)>>,
            <<Elem("linearGradient", [id |-> "g1", type |-> "radial"], <<Stop0, Stop1>>)>>,
            <<Grad("g2", <<Stop0>>), BareGradient>>}}

PathBlack == Elem("path", [d |-> "M10 10 H 90 V 90 H 10 L 10 10", fill |-> "black"], <<>>)
CircleRed ==
  Elem("circle",
       ("cx" :> "50") @@ ("cy" :> "50") @@ ("r" :> "40") @@ ("stroke" :> "black")
       @@ ("stroke-width" :> "3") @@ ("fill" :> "red"),
       <<>>)
RectBlue ==
  Elem("rect", [x |-> "10", y |-> "10", width |-> "80", height |-> "80", fill |-> "blue"], <<>>)
LineRed ==
  Elem("line",
       ("x1" :> "10") @@ ("y1" :> "10") @@ ("x2" :> "90") @@ ("y2" :> "90")
       @@ ("stroke" :> "red") @@ ("stroke-width" :> "2"),
       <<>>)
GroupRot == Elem("g", [transform |-> "rotate(45, 50, 50)"], <<PathBlack>>)
PlainShapes == {PathBlack, CircleRed, RectBlue, LineRed, GroupRot}

\* Documents whose shapes of different types are interleaved in any order.
PlainDocs == {Svg(e) : e \in SeqsUpTo(PlainShapes, MaxElems)}

BarePath == Elem("path", NoAttrs, <<>>)
BareCircle == Elem("circle", NoAttrs, <<>>)
BareGroup == Elem("g", NoAttrs, <<PathBlack>>)
Animate(attrs) == Elem("animate", attrs, <<>>)

\* Malformed input and well-formed corner cases.
CornerDocs ==
  {MalformedDoc,
   Doc(Elem("svg", NoAttrs, <<PathBlack>>)),
   Doc(Elem("html", [lang |-> "en"], <<>>)),
   Doc(Elem("svg", [width |-> "24px", height |-> "24px"], <<RectBlue, PathBlack>>)),
   Doc(Elem("svg", [viewBox |-> "0 0"], <<LineRed>>)),
   Svg(<<BarePath, RectBlue>>),
   Svg(<<PathBlack, BareCircle>>),
   Svg(<<RectBlue, BareGroup>>),
   Svg(<<Elem("g", [id |-> "layer"], <<BarePath>>)>>),
   Svg(<<Animate([attributeName |-> "opacity", dur |-> "500"]), CircleRed>>),
   Svg(<<Elem("animateTransform", [attributeName |-> "transform"], <<>>)>>),
   Svg(<<Animate(NoAttrs)>>)}

\* The element el with the transform attribute t, <<>> for none.
WithTransform(el, t) ==
  IF t = <<>> THEN el ELSE [el EXCEPT !.attrs = ("transform" :> t[1]) @@ el.attrs]

\* A <g> with an id and no transform.
Layer(kids) == Elem("g", [id |-> "layer"], kids)

\* A <g> with a transform.
Turned(t, kids) == Elem("g", [transform |-> t], kids)

\* Trees of nested groups: with and without transforms, with rotated child
\* shapes, with a line among the children, and without children.
GroupTrees ==
  {Layer(<<>>),
   Layer(<<PathBlack, Layer(<<RectBlue>>)>>),
   Turned("rotate(45 50 50)",
          <<PathBlack, Layer(<<RectBlue, Turned("translate(10, 20)", <<CircleRed>>)>>)>>),
   Layer(<<Layer(<<Layer(<<PathBlack>>), Layer(<<>>)>>), Turned("rotate(90)", <<RectBlue>>)>>),
   Layer(<<WithTransform(PathBlack, <<"rotate(30)">>), WithTransform(RectBlue, <<"rotate(0)">>)>>),
   Layer(<<Layer(<<WithTransform(RectBlue, <<"rotate(45, 50, 50)">>)>>)>>),
   Layer(<<WithTransform(CircleRed, <<"rotate(45)">>)>>),
   Layer(<<LineRed, CircleRed, PathBlack, RectBlue>>),
   Layer(<<LineRed>>),
   Layer(<<Layer(<<LineRed, PathBlack>>)>>)}

\* Documents with one tree of groups, or a tree after a top-level path.
GroupDocs == {Svg(<<g>>) : g \in GroupTrees} \cup {Svg(<<PathBlack, g>>) : g \in GroupTrees}

Docs == GradientDocs \cup StopDocs \cup DefsDocs \cup PlainDocs \cup CornerDocs \cup GroupDocs

Filter1 ==
  Elem("filter", [id |-> "f1"],
       <<Elem("feDropShadow",
              ("dx" :> "2") @@ ("dy" :> "2") @@ ("stdDeviation" :> "3")
              @@ ("flood-color" :> "#000000") @@ ("flood-opacity" :> "0.5"),
              <<>>)>>)

\* A path that asks for the filter of the given id.
PathFilter(id) == Elem("path", [d |-> "M0 0 L 5 5", filter |-> "url(#" \o id \o ")"], <<>>)
CircleF1 ==
  Elem("circle", [cx |-> "50", cy |-> "50", r |-> "40", filter |-> "url(#f1)"], <<>>)
GroupF1 ==
  Elem("g", [transform |-> "rotate(90)"], <<RectBlue, LineRed, PathFilter("f1")>>)
FilterShapes == {PathFilter("missing"), PathFilter("toString"), CircleF1, GroupF1}

\* Documents for the filter variant.
FilterDocs ==
  {Svg(Defs(f) \o e) : f \in {<<>>, <<Filter1>>}, e \in SeqsUpTo(FilterShapes, MaxElems)}
  \cup {MalformedDoc,
        Doc(Elem("svg", NoAttrs, <<PathBlack>>)),
        Svg(Defs(<<Elem("filter", NoAttrs, <<>>)>>) \o <<PathBlack>>),
        Svg(Defs(<<Elem("filter", [id |-> "f1"], <<>>)>>) \o <<PathFilter("f1"), LineRed>>),
        Svg(Defs(<<Elem("filter", [id |-> "f1"], <<>>)>>)
            \o <<CircleF1,
                 Elem("rect", [width |-> "8", height |-> "8", filter |-> "url(#f1)"], <<>>),
                 Elem("line", [x1 |-> "0", y1 |-> "0", x2 |-> "9", y2 |-> "9",
                               filter |-> "url(#f1)"], <<>>)>>),
        Svg(Defs(<<Elem("filter", [id |-> "f1"], <<>>)>>)
            \o <<Elem("g", [id |-> "layer"], <<PathFilter("f1"), CircleF1>>)>>),
        Svg(Defs(<<Elem("filter", [id |-> "f1"], <<Elem("feDropShadow", NoAttrs, <<>>)>>)>>)
            \o <<PathFilter("f1")>>),
        Svg(Defs(<<Filter1>>)
            \o <<Elem("rect", [width |-> "8", height |-> "8", filter |-> "url(#f1)"], <<>>),
                 Elem("line", [x1 |-> "0", y1 |-> "0", x2 |-> "9", y2 |-> "9",
                               filter |-> "url(#f1)"], <<>>)>>),
        Svg(<<PathBlack, CircleRed, Elem("g", [id |-> "layer"], <<PathBlack, GroupRot>>)>>),
        Svg(<<PathBlack, LineRed, CircleRed, RectBlue>>),
        Svg(<<BareGroup>>)}
  \cup GroupDocs

\* ------------------------------------------------------------------------
\* State
\* ------------------------------------------------------------------------
\* Two invocations of convertSvgToAndroidVector; the sequential
\* specification uses the first only.
CallIds == {1, 2}

VARIABLES
  gradientMap,     \* ISVG2XML.gradientMap: id -> registered gradient element
  filters,         \* part_002 `filters`: id -> registered filter element
  pc,              \* per call: the statement convertSvgToAndroidVector is at
  doc,             \* per call: the content of inputFile
  vectorXml,       \* per call: the chunks appended to vectorXml so far
  bodyXml,         \* per call (filter variant): the chunks appended to bodyXml
  groupedElements, \* per call (filter variant): the chunks pushed
  written,         \* per call: the contents passed to writeFileSync, in order
  outcome,         \* per call: "none", "running", "ok", "parseError", "threw"
  everRegistered,  \* history: every id a call has put into gradientMap
  clearedBy,       \* history, per call: another call's clear() ran between
                   \* this call's registration and its path emission
  reRegistered,    \* history, per call: ids other calls registered between
                   \* that clear() and this call's path emission
  call,            \* one call of a pure function: [fn, args, ret]
  disk,            \* the file system: path -> [kind, data]
  job              \* the run of processSvgs: its folders, loop and outcome

vars ==
  <<gradientMap, filters, pc, doc, vectorXml, bodyXml, groupedElements, written,
    outcome, everRegistered, clearedBy, reRegistered, call, disk, job>>

EmptyMap == [k \in {} |-> Elem("linearGradient", NoAttrs, <<>>)]

\* No pure function is being called.
NoCall == [fn |-> "", args |-> <<>>, ret |-> <<>>]

\* A file system without entries.
EmptyDisk == [p \in {} |-> [kind |-> "file", data |-> ""]]

\* processSvgs has not been called.
NoJob ==
  [pc |-> "idle", inputFolder |-> "", outputFolder |-> "", todo |-> {}, runs |-> 0,
   outcomes |-> <<>>, found |-> {}, before |-> EmptyDisk]

\* The converters and the pure calls touch no file of the generator.
NoFiles == disk = EmptyDisk /\ job = NoJob

Chunk(src, idx, text) == [src |-> src, idx |-> idx, text |-> text]

RECURSIVE Text(_)
\* The string a sequence of chunks makes up.
Text(chunks) == IF Len(chunks) = 0 THEN "" ELSE chunks[1].text \o Text(Tail(chunks))

Kids(c) == doc[c].root.kids

Present(c, tag) == Len(TagIndices(Kids(c), tag)) > 0

\* Between calls: empty registries, no call in progress, nothing written.
Idle ==
  /\ gradientMap = EmptyMap
  /\ filters = EmptyMap
  /\ pc = [c \in CallIds |-> "idle"]
  /\ doc = [c \in CallIds |-> MalformedDoc]
  /\ vectorXml = [c \in CallIds |-> <<>>]
  /\ bodyXml = [c \in CallIds |-> <<>>]
  /\ groupedElements = [c \in CallIds |-> <<>>]
  /\ written = [c \in CallIds |-> <<>>]
  /\ outcome = [c \in CallIds |-> "none"]
  /\ everRegistered = {}
  /\ clearedBy = [c \in CallIds |-> FALSE]
  /\ reRegistered = [c \in CallIds |-> {}]

Init == Idle /\ call = NoCall /\ NoFiles

\* A reset that leaves the registry as it is.
clear_keep(gm) == gm

\* gradientMap.clear()
clear(gm) == EmptyMap

\* An uncaught TypeError, or the parse-error return: the call ends.
Abort(c, how) ==
  /\ pc' = [pc EXCEPT ![c] = "idle"]
  /\ outcome' = [outcome EXCEPT ![c] = how]

\* A call begins: fresh locals, the registry cleared, the input file read.
Enter(c, d, first) ==
  /\ pc[c] = "idle"
  /\ gradientMap' = clear(gradientMap)
  /\ pc' = [pc EXCEPT ![c] = first]
  /\ doc' = [doc EXCEPT ![c] = d]
  /\ vectorXml' = [vectorXml EXCEPT ![c] = <<>>]
  /\ bodyXml' = [bodyXml EXCEPT ![c] = <<>>]
  /\ groupedElements' = [groupedElements EXCEPT ![c] = <<>>]
  /\ written' = [written EXCEPT ![c] = <<>>]
  /\ outcome' = [outcome EXCEPT ![c] = "running"]
  /\ clearedBy' = [k \in CallIds |->
                     IF k = c THEN FALSE
                     ELSE clearedBy[k] \/ pc[k] \in {"anim", "path"}]
  /\ reRegistered' = [reRegistered EXCEPT ![c] = {}]
  /\ UNCHANGED <<disk, job, call, everRegistered>>

\* SVG2XML.ts lines 291-292.
Start(c, d) == Enter(c, d, "parse") /\ UNCHANGED filters

\* viewBox[i] of line 301, as the header prints it (i is 0-based).
viewBoxEntry(attrs, i) ==
  LET Of(parts) ==
        IF i + 1 <= Len(parts) THEN NumToString(ToNumber(parts[i + 1])) ELSE "undefined"
  IN  IF Has(attrs, "viewBox") THEN Of(Split(attrs["viewBox"], " "))
      ELSE IF i < 2 THEN "0" ELSE "100"

\* attrs.k?.replace('px', '') || '100'
sizeAttr(attrs, k) ==
  LET Of(s) == IF s # "" THEN s ELSE "100"
  IN  IF Has(attrs, k) THEN Of(RemoveFirst(attrs[k], "px")) ELSE "100"

headerText(attrs) ==
  "<?xml version=\"1.0\" encoding=\"utf-8\"?>\n<vector xmlns:android=\"http://schemas.android.com/apk/res/android\"\n    xmlns:aapt=\"http://schemas.android.com/aapt\"\n    android:width=\""
  \o sizeAttr(attrs, "width") \o "dp\"\n    android:height=\""
  \o sizeAttr(attrs, "height") \o "dp\"\n    android:viewportWidth=\""
  \o viewBoxEntry(attrs, 2) \o "\"\n    android:viewportHeight=\""
  \o viewBoxEntry(attrs, 3) \o "\">\n"

\* The parseString callback starts: a parse error is logged and the call
\* returns; result.svg.$ absent is a TypeError; else the header is built.
ParseCallback(c, next) ==
  /\ IF doc[c].xml = "malformed"
     THEN Abort(c, "parseError") /\ UNCHANGED vectorXml
     ELSE IF doc[c].root.tag # "svg" \/ doc[c].root.attrs = NoAttrs
     THEN Abort(c, "threw") /\ UNCHANGED vectorXml
     ELSE /\ vectorXml' = [vectorXml EXCEPT ![c] = <<Chunk("header", 0, headerText(doc[c].root.attrs))>>]
          /\ pc' = [pc EXCEPT ![c] = next]
          /\ UNCHANGED outcome
  /\ UNCHANGED <<disk, job, call, gradientMap, filters, doc, bodyXml, groupedElements, written,
                 everRegistered, clearedBy, reRegistered>>

\* SVG2XML.ts lines 294-311.
Parse(c) == pc[c] = "parse" /\ ParseCallback(c, "defs")

RECURSIVE registerAll(_, _)
\* defs.linearGradient.forEach of lines 317-320: [threw, gm].
registerAll(gm, grads) ==
  LET Set(g, typed) == registerAll((g.attrs["id"] :> typed) @@ gm, Tail(grads))
      One(g) ==
        IF g.attrs = NoAttrs THEN [threw |-> TRUE, gm |-> gm]
        ELSE Set(g, [g EXCEPT !.attrs = ("type" :> OrElse(g.attrs, "type", "linear")) @@ g.attrs])
  IN  IF Len(grads) = 0 THEN [threw |-> FALSE, gm |-> gm] ELSE One(grads[1])

\* result.svg.defs[0].<tag>: the definitions of the first <defs> block.
defsOf(kids, tag) ==
  LET Of(defs) == IF Len(defs) = 0 THEN <<>> ELSE ByTag(defs[1].kids, tag)
  IN  Of(ByTag(kids, "defs"))

\* The ids a forEach over definitions stores: those of the definitions
\* ahead of the first one without attributes.
registeredIds(defs) ==
  {defs[i].attrs["id"] :
     i \in {j \in 1..Len(defs) : \A k \in 1..j : defs[k].attrs # NoAttrs}}

\* SVG2XML.ts lines 314-322; the ids stored are added to the histories.
RegisterGradients(c) ==
  LET Done(grads, r) ==
        /\ gradientMap' = r.gm
        /\ everRegistered' = everRegistered \cup registeredIds(grads)
        /\ reRegistered' = [k \in CallIds |->
                              IF k # c /\ clearedBy[k] /\ pc[k] \in {"anim", "path"}
                              THEN reRegistered[k] \cup registeredIds(grads)
                              ELSE reRegistered[k]]
        /\ IF r.threw THEN Abort(c, "threw")
           ELSE pc' = [pc EXCEPT ![c] = "anim"] /\ UNCHANGED outcome
  IN  /\ pc[c] = "defs"
      /\ Done(defsOf(Kids(c), "linearGradient"),
              registerAll(gradientMap, defsOf(Kids(c), "linearGradient")))
      /\ UNCHANGED <<disk, job, call, filters, doc, vectorXml, bodyXml, groupedElements, written, clearedBy>>

RECURSIVE phaseChunks_backwards(_, _, _, _, _)
\* A loop that visits the elements of a tag from the last to the first.
phaseChunks_backwards(tag, ix, texts, moreAfter, i) ==
  IF i > Len(ix) THEN <<>>
  ELSE phaseChunks_backwards(tag, ix, texts, moreAfter, i + 1)
       \o <<Chunk(tag, ix[i], texts[i])>>
       \o (IF i > 1 \/ moreAfter THEN <<Chunk("sep", 0, "\n")>> ELSE <<>>)

\* The chunks one forEach appends: each element's text, followed by "\n"
\* when the code's separator condition holds.
RECURSIVE phaseChunks(_, _, _, _, _)
phaseChunks(tag, ix, texts, moreAfter, i) ==
  IF i > Len(ix) THEN <<>>
  ELSE <<Chunk(tag, ix[i], texts[i])>>
       \o (IF i < Len(ix) \/ moreAfter THEN <<Chunk("sep", 0, "\n")>> ELSE <<>>)
       \o phaseChunks(tag, ix, texts, moreAfter, i + 1)

\* One forEach over the top-level elements of a tag: append or abort.
EmitPhase(c, tag, results, moreAfter, next) ==
  /\ IF \E i \in 1..Len(results) : results[i].threw
     THEN Abort(c, "threw") /\ UNCHANGED vectorXml
     ELSE /\ vectorXml' =
               [vectorXml EXCEPT ![c] =
                  @ \o phaseChunks(tag, TagIndices(Kids(c), tag),
                                   [i \in 1..Len(results) |-> results[i].text], moreAfter, 1)]
          /\ pc' = [pc EXCEPT ![c] = next]
          /\ UNCHANGED outcome
  /\ UNCHANGED <<disk, job, call, gradientMap, filters, doc, bodyXml, groupedElements, written,
                 everRegistered, clearedBy, reRegistered>>

\* SVG2XML.ts lines 324-337: the <group> of animators, when there is any
\* animation element.
EmitAnimations(c) ==
  LET anims == ByTag(Kids(c), "animate") \o ByTag(Kids(c), "animateTransform")
      Emit(rs) ==
        IF Len(rs) = 0
        THEN pc' = [pc EXCEPT ![c] = "path"] /\ UNCHANGED <<vectorXml, outcome>>
        ELSE IF \E i \in 1..Len(rs) : rs[i].threw
        THEN Abort(c, "threw") /\ UNCHANGED vectorXml
        ELSE /\ vectorXml' =
                  [vectorXml EXCEPT ![c] =
                     @ \o <<Chunk("anim", 0, "    <group>\n" \o ConcatTexts(rs) \o "    </group>\n")>>]
             /\ pc' = [pc EXCEPT ![c] = "path"]
             /\ UNCHANGED outcome
  IN  /\ pc[c] = "anim"
      /\ Emit([i \in 1..Len(anims) |-> convertAnimation(anims[i])])
      /\ UNCHANGED <<disk, job, call, gradientMap, filters, doc, bodyXml, groupedElements, written,
                     everRegistered, clearedBy, reRegistered>>

\* SVG2XML.ts lines 339-347.
EmitPaths(c) ==
  LET els == ByTag(Kids(c), "path")
  IN  /\ pc[c] = "path"
      /\ EmitPhase(c, "path", [i \in 1..Len(els) |-> convertPath(els[i], gradientMap)],
                   Present(c, "rect") \/ Present(c, "circle") \/ Present(c, "line"), "rect")

\* SVG2XML.ts lines 349-357.
EmitRects(c) ==
  LET els == ByTag(Kids(c), "rect")
  IN  /\ pc[c] = "rect"
      /\ EmitPhase(c, "rect", [i \in 1..Len(els) |-> convertRect(els[i])],
                   Present(c, "circle") \/ Present(c, "line"), "circle")

\* SVG2XML.ts lines 359-366.
EmitCircles(c) ==
  LET els == ByTag(Kids(c), "circle")
  IN  /\ pc[c] = "circle"
      /\ EmitPhase(c, "circle", [i \in 1..Len(els) |-> convertCircle(els[i])],
                   Present(c, "line"), "line")

\* SVG2XML.ts lines 368-375.
EmitLines(c) ==
  LET els == ByTag(Kids(c), "line")
  IN  /\ pc[c] = "line"
      /\ EmitPhase(c, "line", [i \in 1..Len(els) |-> convertLine(els[i])], FALSE, "g")

\* SVG2XML.ts lines 377-381; no separator follows a group.
EmitGroups(c) ==
  LET els == ByTag(Kids(c), "g")
      ix  == TagIndices(Kids(c), "g")
      Emit(rs) ==
        IF \E i \in 1..Len(rs) : rs[i].threw
        THEN Abort(c, "threw") /\ UNCHANGED vectorXml
        ELSE /\ vectorXml' = [vectorXml EXCEPT ![c] =
                                @ \o [i \in 1..Len(rs) |-> Chunk("g", ix[i], rs[i].text)]]
             /\ pc' = [pc EXCEPT ![c] = "close"]
             /\ UNCHANGED outcome
  IN  /\ pc[c] = "g"
      /\ Emit([i \in 1..Len(els) |-> handleGroup(els[i], 1, gradientMap)])
      /\ UNCHANGED <<disk, job, call, gradientMap, filters, doc, bodyXml, groupedElements, written,
                     everRegistered, clearedBy, reRegistered>>

\* The call goes on to the write without the end tag.
Close_unterminated(c) ==
  /\ pc[c] = "close"
  /\ pc' = [pc EXCEPT ![c] = "write"]
  /\ UNCHANGED <<disk, job, call, gradientMap, filters, doc, vectorXml, bodyXml, groupedElements,
                 written, outcome, everRegistered, clearedBy, reRegistered>>

\* SVG2XML.ts line 383.
Close(c) ==
  /\ pc[c] = "close"
  /\ vectorXml' = [vectorXml EXCEPT ![c] = Append(@, Chunk("close", 0, "</vector>"))]
  /\ pc' = [pc EXCEPT ![c] = "write"]
  /\ UNCHANGED <<disk, job, call, gradientMap, filters, doc, bodyXml, groupedElements, written, outcome,
                 everRegistered, clearedBy, reRegistered>>

\* fs.writeFileSync(outputFile, vectorXml) and the success message.
WriteFile(c) ==
  /\ written' = [written EXCEPT ![c] = Append(@, Text(vectorXml[c]))]
  /\ pc' = [pc EXCEPT ![c] = "idle"]
  /\ outcome' = [outcome EXCEPT ![c] = "ok"]
  /\ UNCHANGED <<disk, job, call, gradientMap, filters, doc, vectorXml, bodyXml, groupedElements,
                 everRegistered, clearedBy, reRegistered>>

\* SVG2XML.ts lines 385-386.
Write(c) == pc[c] = "write" /\ WriteFile(c)

\* The statements of one call of the exported converter.
Step(c) ==
  \/ Parse(c)
  \/ RegisterGradients(c)
  \/ EmitAnimations(c)
  \/ EmitPaths(c)
  \/ EmitRects(c)
  \/ EmitCircles(c)
  \/ EmitLines(c)
  \/ EmitGroups(c)
  \/ Close(c)
  \/ Write(c)

\* ------------------------------------------------------------------------
\* convertSvgToAndroidVector of the filter variant (part_002 lines 505-579)
\* ------------------------------------------------------------------------
\* Lines 506-508: both registries are reset, the input file is read.
F_Start(c, d) == Enter(c, d, "F_parse") /\ filters' = EmptyMap

\* Lines 510-528.
F_Parse(c) == pc[c] = "F_parse" /\ ParseCallback(c, "F_defs")

RECURSIVE F_registerAll(_, _)
\* defs.filter.forEach of lines 532-535: [threw, fs].
F_registerAll(fs, defs) ==
  IF Len(defs) = 0 THEN [threw |-> FALSE, fs |-> fs]
  ELSE IF defs[1].attrs = NoAttrs THEN [threw |-> TRUE, fs |-> fs]
  ELSE F_registerAll((defs[1].attrs["id"] :> defs[1]) @@ fs, Tail(defs))

\* Lines 530-537.
F_RegisterFilters(c) ==
  LET Done(r) ==
        /\ filters' = r.fs
        /\ IF r.threw THEN Abort(c, "threw")
           ELSE pc' = [pc EXCEPT ![c] = "F_path"] /\ UNCHANGED outcome
  IN  /\ pc[c] = "F_defs"
      /\ Done(F_registerAll(filters, defsOf(Kids(c), "filter")))
      /\ UNCHANGED <<disk, job, call, gradientMap, doc, vectorXml, bodyXml, groupedElements, written,
                     everRegistered, clearedBy, reRegistered>>

\* One forEach that pushes processElement(...) of each top-level element of
\* a tag onto groupedElements; rs are the results of processElement.
F_Push(c, tag, rs, next) ==
  /\ IF \E i \in 1..Len(rs) : rs[i].threw
     THEN Abort(c, "threw") /\ UNCHANGED groupedElements
     ELSE /\ groupedElements' =
               [groupedElements EXCEPT ![c] =
                  @ \o [i \in 1..Len(rs) |-> Chunk(tag, TagIndices(Kids(c), tag)[i], rs[i].text)]]
          /\ pc' = [pc EXCEPT ![c] = next]
          /\ UNCHANGED outcome
  /\ UNCHANGED <<disk, job, call, gradientMap, filters, doc, vectorXml, bodyXml, written,
                 everRegistered, clearedBy, reRegistered>>

\* Lines 542-546.
F_PushPaths(c) ==
  LET els == ByTag(Kids(c), "path")
  IN  /\ pc[c] = "F_path"
      /\ F_Push(c, "path",
                [i \in 1..Len(els) |->
                   F_processElement(els[i], F_convertPath(els[i], filters), "path", filters)],
                "F_circle")

\* Lines 548-552.
F_PushCircles(c) ==
  LET els == ByTag(Kids(c), "circle")
  IN  /\ pc[c] = "F_circle"
      /\ F_Push(c, "circle",
                [i \in 1..Len(els) |->
                   F_processElement(els[i], F_convertCircle(els[i], filters), "circle", filters)],
                "F_rect")

\* Lines 554-558.
F_PushRects(c) ==
  LET els == ByTag(Kids(c), "rect")
  IN  /\ pc[c] = "F_rect"
      /\ F_Push(c, "rect",
                [i \in 1..Len(els) |->
                   F_processElement(els[i], F_convertRect(els[i]), "rect", filters)],
                "F_line")

\* Lines 560-564.
F_PushLines(c) ==
  LET els == ByTag(Kids(c), "line")
  IN  /\ pc[c] = "F_line"
      /\ F_Push(c, "line",
                [i \in 1..Len(els) |->
                   F_processElement(els[i], F_convertLine(els[i], filters), "line", filters)],
                "F_g")

\* Lines 566-570: the groups go to bodyXml.
F_EmitGroups(c) ==
  LET els == ByTag(Kids(c), "g")
      ix  == TagIndices(Kids(c), "g")
      Emit(rs) ==
        IF \E i \in 1..Len(rs) : rs[i].threw
        THEN Abort(c, "threw") /\ UNCHANGED bodyXml
        ELSE /\ bodyXml' = [bodyXml EXCEPT ![c] =
                              @ \o [i \in 1..Len(rs) |-> Chunk("g", ix[i], rs[i].text)]]
             /\ pc' = [pc EXCEPT ![c] = "F_close"]
             /\ UNCHANGED outcome
  IN  /\ pc[c] = "F_g"
      /\ Emit([i \in 1..Len(els) |-> F_handleGroup(els[i], 1, filters)])
      /\ UNCHANGED <<disk, job, call, gradientMap, filters, doc, vectorXml, groupedElements, written,
                     everRegistered, clearedBy, reRegistered>>

\* Lines 572-573: vectorXml += bodyXml; vectorXml += '</vector>'.
F_Close(c) ==
  /\ pc[c] = "F_close"
  /\ vectorXml' = [vectorXml EXCEPT ![c] = Append(@ \o bodyXml[c], Chunk("close", 0, "</vector>"))]
  /\ pc' = [pc EXCEPT ![c] = "F_write"]
  /\ UNCHANGED <<disk, job, call, gradientMap, filters, doc, bodyXml, groupedElements, written, outcome,
                 everRegistered, clearedBy, reRegistered>>

\* Lines 576-577.
F_Write(c) == pc[c] = "F_write" /\ WriteFile(c)

\* The statements of one call of the filter variant.
F_Step(c) ==
  \/ F_Parse(c)
  \/ F_RegisterFilters(c)
  \/ F_PushPaths(c)
  \/ F_PushCircles(c)
  \/ F_PushRects(c)
  \/ F_PushLines(c)
  \/ F_EmitGroups(c)
  \/ F_Close(c)
  \/ F_Write(c)

\* ------------------------------------------------------------------------
\* Specifications
\* ------------------------------------------------------------------------
\* Sequential calls, of either converter: the code is synchronous, one call
\* runs to its end before the next starts.
Next ==
  \/ \E d \in Docs : Start(1, d)
  \/ Step(1)
  \/ \E d \in FilterDocs : F_Start(1, d)
  \/ F_Step(1)

Spec == Init /\ [][Next]_vars

\* Documents for two overlapping calls: with or without a definition of g1,
\* with or without a path that refers to it.
OverlapDocs ==
  {Svg(Defs(g) \o e) :
     g \in {<<>>, <<Grad("g1", <<Stop0>>)>>, <<Grad("g1", <<Stop1>>)>>},
     e \in SeqsUpTo({PathG1}, MaxElems - 1)}

\* Two calls of the exported converter whose statements interleave, as they
\* would if a call yielded between its statements.
NextOverlap ==
  \E c \in CallIds :
    \/ \E d \in OverlapDocs : Start(c, d)
    \/ Step(c)

SpecOverlap == Init /\ [][NextOverlap]_vars

\* ------------------------------------------------------------------------
\* Lazy SVG generator (unnamed/part_003)
\* ------------------------------------------------------------------------
\* svgData.match(/name="(\d+(\.\d+)?)"/) for the literal name: <<>> or
\* <<group 1>> of the leftmost match.
dimensionMatch(svgData, name) ==
  LET Whole(v) == DigitRun(svgData, v)
      Frac(v) ==
        IF Char(svgData, v + Whole(v)) = "." THEN DigitRun(svgData, v + Whole(v) + 1) ELSE 0
      \* the length of the number that starts at v and is closed by a
      \* quote, 0 when there is none
      Matched(v) ==
        IF Whole(v) = 0 THEN 0
        ELSE IF Char(svgData, v + Whole(v)) = "\"" THEN Whole(v)
        ELSE IF Frac(v) > 0 /\ Char(svgData, v + Whole(v) + 1 + Frac(v)) = "\""
        THEN Whole(v) + 1 + Frac(v)
        ELSE 0
      Of(hits) ==
        IF hits = {} THEN <<>>
        ELSE <<SubSeq(svgData, First(hits), First(hits) + Matched(First(hits)) - 1)>>
  IN  Of({v \in {i + Len(name) + 2 : i \in Occurrences(svgData, name \o "=\"")} :
            Matched(v) > 0})

getSvgDimensions(svgData) ==
  LET widthMatch  == dimensionMatch(svgData, "width")
      heightMatch == dimensionMatch(svgData, "height")
  IN  [width  |-> IF widthMatch # <<>> THEN widthMatch[1] ELSE "100",
       height |-> IF heightMatch # <<>> THEN heightMatch[1] ELSE "100"]

RECURSIVE removeFillFromSvg(_)
\* svgData.replace(/\s*fill="[^"]*"/g, ''): every fill="..." goes, together
\* with the white space in front of it.
removeFillFromSvg(svgData) ==
  LET IsSpace(i) == i >= 1 /\ Char(svgData, i) \in {" ", "\n", "\t"}
      \* where the value that follows fill=" at i is closed
      Closing(i) == {j \in (i + 6)..Len(svgData) : Char(svgData, j) = "\""}
      \* the first position of the white space that ends right before i
      Lead(i) == First({k \in 1..i : \A m \in k..(i - 1) : IsSpace(m)})
      Cut(hits) ==
        IF hits = {} THEN svgData
        ELSE SubSeq(svgData, 1, Lead(First(hits)) - 1)
             \o removeFillFromSvg(SubSeq(svgData, First(Closing(First(hits))) + 1, Len(svgData)))
  IN  Cut({i \in Occurrences(svgData, "fill=\"") : Closing(i) # {}})

\* path.join(folder, name)
Join(folder, name) == folder \o "/" \o name

\* path.extname(name): from the last dot on, '' when the name has no dot or
\* only a leading one.
ExtName(name) ==
  LET dots == {i \in 1..Len(name) : Char(name, i) = "."}
      last == CHOOSE i \in dots : \A k \in dots : k <= i
  IN  IF dots = {} \/ last = 1 THEN "" ELSE SubSeq(name, last, Len(name))

\* path.basename(name, '.svg')
BaseName(name) ==
  IF EndsWith(name, ".svg") /\ Len(name) > 4 THEN SubSeq(name, 1, Len(name) - 4) ELSE name

IsDir(d, p) == p \in DOMAIN d /\ d[p].kind = "dir"
IsFile(d, p) == p \in DOMAIN d /\ d[p].kind = "file"

\* fs.readdirSync(folder): the names of the entries directly in the folder.
ReadDir(d, folder) ==
  {SubSeq(p, Len(folder) + 2, Len(p)) :
     p \in {q \in DOMAIN d :
              /\ StartsWith(q, folder \o "/")
              /\ ~Contains(SubSeq(q, Len(folder) + 2, Len(q)), "/")}}

\* The outcome of file system calls: an exception or not, and the disk they
\* leave behind.
Done(d) == [threw |-> FALSE, disk |-> d]
Failed(d) == [threw |-> TRUE, disk |-> d]

\* The call Op on the disk r leaves, unless r is an exception.
Then(r, Op(_)) == IF r.threw THEN r ELSE Op(r.disk)

\* if (!fs.existsSync(p)) fs.mkdirSync(p, { recursive: true }), for a path
\* whose parent folder exists.
EnsureDir(d, p) ==
  IF p \in DOMAIN d THEN Done(d) ELSE Done((p :> [kind |-> "dir", data |-> ""]) @@ d)

\* fs.writeFileSync(path.join(folder, name), data): fails when the folder
\* is no directory or the path is one.
WriteFileSync(d, folder, name, data) ==
  IF ~IsDir(d, folder) \/ IsDir(d, Join(folder, name)) THEN Failed(d)
  ELSE Done((Join(folder, name) :> [kind |-> "file", data |-> data]) @@ d)

\* fs.renameSync(from, path.join(folder, name)) of a file: fails when the
\* folder is no directory or the target is one; replaces a file.
RenameSync(d, from, folder, name) ==
  IF ~IsFile(d, from) \/ ~IsDir(d, folder) \/ IsDir(d, Join(folder, name)) THEN Failed(d)
  ELSE Done([p \in (DOMAIN d \ {from}) \cup {Join(folder, name)} |->
               IF p = Join(folder, name) THEN d[from] ELSE d[p]])

\* moveToOriginFolder(svgFile, inputFolder)
moveToOriginFolder(d, svgFile, inputFolder) ==
  Then(EnsureDir(d, Join(inputFolder, "origin-svgs")),
       LAMBDA e : RenameSync(e, Join(inputFolder, svgFile),
                             Join(inputFolder, "origin-svgs"), svgFile))

\* The lazy-loaded component of lines 84-103.
lazyContent(svgFileName, dim) ==
  "\nimport React, { Suspense } from \"react\";\nconst " \o svgFileName
  \o " = React.lazy(() => import('./" \o svgFileName \o "'));\n\nfunction Lazy" \o svgFileName
  \o "(props: React.SVGAttributes<SVGSVGElement>) {\n  return (\n    <Suspense fallback={(<svg width=\""
  \o dim.width \o "\"\n      height=\"" \o dim.height \o "\"\n      viewBox=\"0 0 "
  \o dim.width \o " " \o dim.height
  \o "\"\n      xmlns=\"http://www.w3.org/2000/svg\"\n      {...props}\n    />)} >\n    \n      <"
  \o svgFileName \o " {...props} />\n    </Suspense>\n  );\n}\n\nexport default React.memo(Lazy"
  \o svgFileName \o ");\n"

\* createFilesForSvg(svgFile, inputFolder, outputFolder): each call of fs
\* works on the disk the calls before it left; the first one that fails
\* ends the function.
createFilesForSvg(d, svgFile, inputFolder, outputFolder) ==
  LET svgFileName == BaseName(svgFile)
      svgFilePath == Join(outputFolder, svgFileName)
      source      == Join(inputFolder, svgFile)
      \* the writes and the move, for the content read
      WriteOut(e, svgData) ==
        Then(Then(Then(Then(
          WriteFileSync(e, svgFilePath, svgFileName \o ".svg", removeFillFromSvg(svgData)),
          LAMBDA f : WriteFileSync(f, svgFilePath, svgFileName \o ".tsx",
                       "export { ReactComponent as default } from './" \o svgFileName
                       \o ".svg';")),
          LAMBDA f : WriteFileSync(f, svgFilePath, "index.ts",
                       "export { default } from './" \o svgFileName \o "';")),
          LAMBDA f : WriteFileSync(f, outputFolder, "Lazy" \o svgFileName \o ".tsx",
                       lazyContent(svgFileName, getSvgDimensions(svgData)))),
          LAMBDA f : moveToOriginFolder(f, svgFile, inputFolder))
  IN  Then(EnsureDir(d, svgFilePath),
           LAMBDA e : IF IsFile(e, source) THEN WriteOut(e, e[source].data) ELSE Failed(e))

\* ------------------------------------------------------------------------
\* Pure functions, called on their own
\* ------------------------------------------------------------------------
\* The longest run of hex digits after the # of a colour argument.
MaxHexLen == 3

RECURSIVE HexStrings(_)
\* The strings of at most n digits over a small hex alphabet.
HexStrings(n) ==
  IF n = 0 THEN {""}
  ELSE HexStrings(n - 1) \cup {s \o c : s \in HexStrings(n - 1), c \in {"0", "f", "A"}}

RECURSIVE HexBytes(_)
\* The strings of exactly n bytes, two hex digits each, over a small alphabet.
HexBytes(n) ==
  IF n = 0 THEN {""} ELSE {s \o b : s \in HexBytes(n - 1), b \in {"00", "ff", "3C"}}

\* Colour arguments: undefined, the empty string, names in and out of the
\* table, names of Object.prototype properties, hex and functional notations.
ColorInputs ==
  {<<>>}
  \cup {<<s>> : s \in {"", "none", "white", "black", "red", "blue", "green", "purple",
                       "Red", "WHITE", "transparent", "currentColor", "url(#g1)",
                       "rgb(255, 0, 0)", "rgb(0,0,0)", "#ff0000", "#FF000000",
                       "#373737", "#ggg", "#12345", "ff0000"}}
  \cup {<<s>> : s \in ObjectProtoKeys}
  \cup {<<"#" \o h>> : h \in HexStrings(MaxHexLen)}
  \cup {<<"#" \o h>> : h \in HexBytes(3) \cup HexBytes(4)}

\* Colour arguments of convertColorWithOpacity: a stop without stop-color
\* passes undefined.
OpacityColors ==
  {<<>>}
  \cup {<<s>> : s \in {"", "red", "none", "#abc", "#f00", "#FFF", "#ff00", "#gggggg",
                       "#ff5733", "#80ff0000", "ff0000", "rgb(255,0,0)",
                       "rgb(0, 128, 255)", "rgb(1,2,3", "rgb", "url(#g1)"}}
  \cup {<<"#" \o h>> : h \in HexBytes(3)}

\* Opacity arguments: numbers inside and outside [0, 1], and strings that are
\* no numbers.
OpacityInputs ==
  {"0", "0.5", "1", "0.25", "0.1", "0.3", "0.999", "0.002", "1.0", ".5",
   "abc", "", "3%", "-1", "2"}

\* Transform arguments: rotate with one, two and three numbers, the other
\* transform functions, and lists of functions.
TransformInputs ==
  {"", "rotate(45)", "rotate(0)", "rotate(-90)", "rotate(12.5)", "rotate(45 10)",
   "rotate(45, 10)", "rotate(30,5)", "rotate(45 10 20)", "rotate(45, 50, 50)",
   "rotate(0 10 10)", "rotate(45 0 0)", "rotate(45 10 )", "rotate( 45)", "rotate(.)",
   "rotate(45 . 10)", "rotate()", "scale(2)", "translate(10, 20)",
   "matrix(1 0 0 1 0 0)", "skewX(30)", "translate(5) rotate(30)",
   "rotate(10 1) rotate(20)"}

ShapeTransforms ==
  {<<>>}
  \cup {<<t>> : t \in {"rotate(45)", "rotate(0)", "rotate(45, 50, 50)", "rotate(0 10 10)",
                       "rotate(45 10)", "scale(2)", "translate(10, 20)",
                       "matrix(1 0 0 1 0 0)", "skewX(30)", "translate(5) rotate(30)"}}

Circle(cx, cy, r) ==
  Elem("circle", [cx |-> cx, cy |-> cy, r |-> r, fill |-> "red", stroke |-> "black"], <<>>)

CircleInputs ==
  {WithTransform(CircleRed, t) : t \in ShapeTransforms}
  \cup {Circle(cx, cy, r) : cx \in {"50", "0", "12.5"}, cy \in {"50", "-3", "7.25"},
                            r \in {"40", "10", "2", "0"}}
  \cup {BareCircle, Elem("circle", [cx |-> "50", cy |-> "50"], <<>>)}

PathInputs == {WithTransform(PathBlack, t) : t \in ShapeTransforms} \cup {BarePath, PathG1}

\* The attribute k with the value v, or no attribute for <<>>.
Attr(k, v) == IF v = <<>> THEN NoAttrs ELSE k :> v[1]

\* A rect with optional position and corner radii.
Rect(x, y, width, height, rx, ry) ==
  Elem("rect",
       Attr("x", x) @@ Attr("y", y) @@ Attr("rx", rx) @@ Attr("ry", ry)
       @@ [width |-> width, height |-> height, fill |-> "blue"],
       <<>>)

RectInputs ==
  {WithTransform(RectBlue, t) : t \in ShapeTransforms}
  \cup {Elem("rect", NoAttrs, <<>>),
        Elem("rect", [x |-> "0", y |-> "0", width |-> "20", height |-> "10", rx |-> "2"], <<>>),
        Elem("rect", [x |-> "1", y |-> "1", rx |-> "2"], <<>>)}
  \cup {Rect(x, y, width, "20", rx, ry) :
          x \in {<<>>, <<"10">>, <<"2.5">>}, y \in {<<>>, <<"4">>},
          width \in {"80", "0", "-5"},
          rx \in {<<>>, <<"">>, <<"0">>, <<"2">>, <<"abc">>},
          ry \in {<<>>, <<"0">>, <<"3">>}}

\* A line with optional stroke and stroke-width.
Line(x1, y1, x2, y2, stroke, strokeWidth) ==
  Elem("line",
       Attr("stroke", stroke) @@ Attr("stroke-width", strokeWidth)
       @@ [x1 |-> x1, y1 |-> y1, x2 |-> x2, y2 |-> y2],
       <<>>)

LineInputs ==
  {WithTransform(LineRed, t) : t \in ShapeTransforms}
  \cup {Elem("line", NoAttrs, <<>>), Elem("line", [x1 |-> "0", y1 |-> "0"], <<>>)}
  \cup {Line(x1, "10", x2, "-4", stroke, strokeWidth) :
          x1 \in {"10", "0.5"}, x2 \in {"90", "1e2"},
          stroke \in {<<>>, <<"">>, <<"red">>, <<"#ff0000">>, <<"teal">>, <<"url(#g1)">>},
          strokeWidth \in {<<>>, <<"">>, <<"2">>, <<"0">>, <<"1.5">>}}

RECURSIVE Glue(_)
\* The strings of a sequence, one after the other.
Glue(parts) == IF Len(parts) = 0 THEN "" ELSE parts[1] \o Glue(Tail(parts))

\* Attributes of an <svg> start tag.
SvgAttrPool ==
  {" width=\"24\"", " height=\"32\"", " stroke-width=\"2\"", " width=\"24px\"",
   " height=\"12.5\"", " line-height=\"3\"", " width=\"100%\"", " viewBox=\"0 0 24 24\""}

\* SVG contents: a start tag with up to two attributes, and a path.
SvgContents ==
  {"<svg" \o Glue(attrs) \o "><path d=\"M0 0\"/></svg>" : attrs \in SeqsUpTo(SvgAttrPool, 2)}

\* The state of the conversions, which a pure function neither reads nor
\* writes.
conversion ==
  <<gradientMap, filters, pc, doc, vectorXml, bodyXml, groupedElements, written,
    outcome, everRegistered, clearedBy, reRegistered>>

\* A call of the function fn that has not returned yet.
Pending(fn, args) == [fn |-> fn, args |-> args, ret |-> <<>>]

InitPure ==
  /\ Idle
  /\ NoFiles
  /\ \/ call \in {Pending("convertColor", <<a>>) : a \in ColorInputs}
     \/ call \in {Pending("F_convertColor", <<a>>) : a \in ColorInputs}
     \/ call \in {Pending("convertColorWithOpacity", <<c, o>>) :
                    c \in OpacityColors, o \in OpacityInputs}
     \/ call \in {Pending("processTransform", <<t>>) : t \in TransformInputs}
     \/ call \in {Pending("convertCircle", <<e>>) : e \in CircleInputs}
     \/ call \in {Pending("convertPath", <<e>>) : e \in PathInputs}
     \/ call \in {Pending("convertRect", <<e>>) : e \in RectInputs}
     \/ call \in {Pending("convertLine", <<e>>) : e \in LineInputs}
     \/ call \in {Pending("getSvgDimensions", <<s>>) : s \in SvgContents}

\* The pending call of fn returns value.
Return(fn, value) ==
  /\ call.fn = fn
  /\ call.ret = <<>>
  /\ call' = [call EXCEPT !.ret = <<value>>]
  /\ UNCHANGED <<conversion, disk, job>>

\* convertColor(color) of SVG2XML.ts returns.
CallConvertColor ==
  /\ call.fn = "convertColor"
  /\ Return("convertColor", convertColor(call.args[1]))

\* convertColor(color) of the filter variant returns.
CallFConvertColor ==
  /\ call.fn = "F_convertColor"
  /\ Return("F_convertColor", F_convertColor(call.args[1]))

\* convertColorWithOpacity(color, opacity) returns or throws: an undefined
\* colour fails at color.startsWith.
CallConvertColorWithOpacity ==
  /\ call.fn = "convertColorWithOpacity"
  /\ Return("convertColorWithOpacity",
            IF call.args[1] = <<>> THEN Throw
            ELSE Ok(convertColorWithOpacity(call.args[1][1], call.args[2])))

\* processTransform(transform) returns.
CallProcessTransform ==
  /\ call.fn = "processTransform"
  /\ Return("processTransform", processTransform(call.args[1]))

\* convertCircle(circle) returns or throws.
CallConvertCircle ==
  /\ call.fn = "convertCircle"
  /\ Return("convertCircle", convertCircle(call.args[1]))

\* convertPath(path) returns or throws.
CallConvertPath ==
  /\ call.fn = "convertPath"
  /\ Return("convertPath", convertPath(call.args[1], gradientMap))

\* convertRect(rect) returns or throws.
CallConvertRect ==
  /\ call.fn = "convertRect"
  /\ Return("convertRect", convertRect(call.args[1]))

\* convertLine(line) returns or throws.
CallConvertLine ==
  /\ call.fn = "convertLine"
  /\ Return("convertLine", convertLine(call.args[1]))

\* getSvgDimensions(svgData) returns.
CallGetSvgDimensions ==
  /\ call.fn = "getSvgDimensions"
  /\ Return("getSvgDimensions", getSvgDimensions(call.args[1]))

NextPure ==
  \/ CallConvertColor
  \/ CallFConvertColor
  \/ CallConvertColorWithOpacity
  \/ CallProcessTransform
  \/ CallConvertCircle
  \/ CallConvertPath
  \/ CallConvertRect
  \/ CallConvertLine
  \/ CallGetSvgDimensions

SpecPure == InitPure /\ [][NextPure]_vars

\* ------------------------------------------------------------------------
\* processSvgs on a folder of files
\* ------------------------------------------------------------------------
\* processSvgs is called at most this often on the same folders.
MaxRuns == 2

\* The files a folder of icons holds before the first run, by name.
IconFiles ==
  ("a.svg" :> "<svg width=\"24\" height=\"24\" fill=\"none\"><path fill=\"#000\" d=\"M0 0\"/></svg>")
  @@ ("b.svg" :> "<svg viewBox=\"0 0 8 8\">\n  <path d=\"M1 1\"/>\n</svg>")
  @@ ("a.svg.svg" :> "<svg width=\"16\" height=\"16\"/>")
  @@ (".svg" :> "<svg/>")
  @@ ("notes.txt" :> "icons")

\* The disk with the directories dirs and the files of folder "in" named by
\* names; older holds the names already kept in in/origin-svgs.
DiskWith(dirs, names, older) ==
  [p \in dirs \cup {Join("in", n) : n \in names} \cup {Join("in/origin-svgs", n) : n \in older} |->
     IF p \in dirs THEN [kind |-> "dir", data |-> ""]
     ELSE IF \E n \in names : p = Join("in", n)
          THEN [kind |-> "file", data |-> IconFiles[CHOOSE n \in names : p = Join("in", n)]]
          ELSE [kind |-> "file", data |-> "<svg/>"]]

InitialDisks ==
  {DiskWith({"in"} \cup extra, names, {}) :
     extra \in {{}, {"out"}, {"in/origin-svgs"}}, names \in SUBSET DOMAIN IconFiles}
  \cup {DiskWith({"in", "in/origin-svgs"}, names, {"a.svg"}) :
          names \in SUBSET DOMAIN IconFiles}

InitFiles == Idle /\ call = NoCall /\ job = NoJob /\ disk \in InitialDisks

\* The .svg files directly in the folder.
SvgFilesIn(d, folder) ==
  {n \in ReadDir(d, folder) : ExtName(n) = ".svg" /\ IsFile(d, Join(folder, n))}

\* processSvgs(inputFolder, outputFolder) up to its loop (lines 117-124): the
\* output folder is made when missing, then the input folder is listed. A
\* later run is on the folders of the first one.
ProcessSvgs(inputFolder, outputFolder) ==
  /\ job.pc = "idle"
  /\ job.runs < MaxRuns
  /\ job.runs > 0 => inputFolder = job.inputFolder /\ outputFolder = job.outputFolder
  /\ disk' = EnsureDir(disk, outputFolder).disk
  /\ job' = [job EXCEPT !.pc = "loop",
                        !.inputFolder = inputFolder,
                        !.outputFolder = outputFolder,
                        !.todo = ReadDir(disk', inputFolder),
                        !.found = IF job.runs = 0 THEN SvgFilesIn(disk, inputFolder) ELSE @,
                        !.before = disk]
  /\ UNCHANGED <<conversion, call>>

\* One round of the loop for an entry with extension .svg (lines 126-128):
\* createFilesForSvg; its exception ends processSvgs.
CreateFilesForSvg ==
  /\ job.pc = "loop"
  /\ \E svgFile \in job.todo :
       /\ ExtName(svgFile) = ".svg"
       /\ \E r \in {createFilesForSvg(disk, svgFile, job.inputFolder, job.outputFolder)} :
            /\ disk' = r.disk
            /\ job' = IF r.threw
                      THEN [job EXCEPT !.pc = "idle", !.todo = {}, !.runs = @ + 1,
                                       !.outcomes = Append(@, "threw")]
                      ELSE [job EXCEPT !.todo = @ \ {svgFile}]
  /\ UNCHANGED <<conversion, call>>

\* One round of the loop for any other entry (line 126).
SkipEntry ==
  /\ job.pc = "loop"
  /\ \E svgFile \in job.todo :
       /\ ExtName(svgFile) # ".svg"
       /\ job' = [job EXCEPT !.todo = @ \ {svgFile}]
  /\ UNCHANGED <<conversion, call, disk>>

\* The loop is through: processSvgs returns.
ProcessSvgsReturns ==
  /\ job.pc = "loop"
  /\ job.todo = {}
  /\ job' = [job EXCEPT !.pc = "idle", !.runs = @ + 1, !.outcomes = Append(@, "ok")]
  /\ UNCHANGED <<conversion, call, disk>>

NextFiles ==
  \/ \E inputFolder \in {"in"}, outputFolder \in {"in", "out"} :
       ProcessSvgs(inputFolder, outputFolder)
  \/ CreateFilesForSvg
  \/ SkipEntry
  \/ ProcessSvgsReturns

SpecFiles == InitFiles /\ [][NextFiles]_vars

\* ------------------------------------------------------------------------
\* Properties
\* ------------------------------------------------------------------------
\* The top-level element a chunk of call c was converted from.
Origin(c, ch) == Kids(c)[ch.idx]

\* <<id>> for an element whose fill is url(#id), <<>> for any other element.
FillRef(el) ==
  IF Truthy(el.attrs, "fill") /\ StartsWith(el.attrs["fill"], "url(#")
  THEN <<SliceInner(el.attrs["fill"], 5)>>
  ELSE <<>>

\* The linearGradient definitions of call c's document that carry an id.
OwnGradients(c) ==
  LET defs == defsOf(Kids(c), "linearGradient")
  IN  [i \in {j \in 1..Len(defs) : defs[j].attrs # NoAttrs} |-> defs[i]]

OwnIds(c) == {OwnGradients(c)[i].attrs["id"] : i \in DOMAIN OwnGradients(c)}

\* The registry a call on document c builds when it starts from an empty one.
OwnRegistry(c) == registerAll(EmptyMap, defsOf(Kids(c), "linearGradient")).gm

\* A flat fill of the default colour, and no gradient.
DefaultFill(text) ==
  Contains(text, "android:fillColor=\"#000000\"") /\ ~Contains(text, "<gradient")

\* A nested gradient block, and no flat fillColor attribute.
GradientFill(text) ==
  /\ Contains(text, "<aapt:attr name=\"android:fillColor\">")
  /\ Contains(text, "<gradient")
  /\ ~Contains(text, "android:fillColor=\"")

\* The chunks of call c's document that come from elements of the tags.
ChunksOf(chunks, tags) == {i \in 1..Len(chunks) : chunks[i].src \in tags}

\* C1: the output file of a call is written at most once, and what is
\* written is the complete document, header through </vector>, built before
\* the write; a call whose input fails to parse never writes.
C1_WrittenOnceAndComplete ==
  \A c \in CallIds :
    /\ Len(written[c]) <= 1
    /\ written[c] # <<>> =>
         /\ written[c][1] = Text(vectorXml[c])
         /\ StartsWith(written[c][1], "<?xml version=\"1.0\" encoding=\"utf-8\"?>\n<vector ")
         /\ EndsWith(written[c][1], "</vector>")
         /\ outcome[c] = "ok"
    /\ doc[c].xml = "malformed" =>
         /\ written[c] = <<>>
         /\ outcome[c] \in {"none", "running", "parseError"}

\* A call has written a document that holds a converted path.
C1_Witness ==
  /\ written[1] # <<>>
  /\ ChunksOf(vectorXml[1], {"path"}) # {}
  /\ Contains(written[1][1], "android:pathData=\"M10 10 H 90 V 90 H 10 L 10 10\"")

\* The steps of the exported converter at which the registry is read.
Emitting == {"anim", "path", "rect", "circle", "line", "g"}

\* C2: while call c emits its shapes the registry holds exactly the
\* linearGradient definitions of c's own <defs> block (the last one of each
\* id), nothing of an earlier call; a path that refers to an id its document
\* does not define is emitted with the flat default fill.
C2_RegistryHoldsOwnDefinitions ==
  \A c \in CallIds :
    pc[c] \in Emitting =>
      /\ DOMAIN gradientMap = OwnIds(c)
      /\ \A id \in DOMAIN gradientMap :
           \E i \in DOMAIN OwnGradients(c) :
             /\ OwnGradients(c)[i].attrs["id"] = id
             /\ \A j \in DOMAIN OwnGradients(c) :
                  OwnGradients(c)[j].attrs["id"] = id => j <= i
             /\ gradientMap[id].kids = OwnGradients(c)[i].kids
             /\ \A k \in DOMAIN OwnGradients(c)[i].attrs :
                  gradientMap[id].attrs[k] = OwnGradients(c)[i].attrs[k]
      /\ \A i \in ChunksOf(vectorXml[c], {"path"}) :
           (/\ FillRef(Origin(c, vectorXml[c][i])) # <<>>
            /\ FillRef(Origin(c, vectorXml[c][i]))[1] \notin OwnIds(c))
           => DefaultFill(vectorXml[c][i].text)

\* A call is past its paths; an earlier call had registered g1, this call's
\* document does not define it, and its path that refers to g1 is flat.
C2_Witness ==
  /\ pc[1] = "rect"
  /\ "g1" \in everRegistered
  /\ "g1" \notin OwnIds(1)
  /\ \E i \in ChunksOf(vectorXml[1], {"path"}) :
       /\ Origin(1, vectorXml[1][i]) = PathG1
       /\ DefaultFill(vectorXml[1][i].text)

\* The paths call c emitted whose fill refers to a gradient that c's own
\* document defines, emitted after another call's reset.
PathsAfterForeignReset(c) ==
  {i \in ChunksOf(vectorXml[c], {"path"}) :
     /\ clearedBy[c]
     /\ FillRef(Origin(c, vectorXml[c][i])) # <<>>
     /\ FillRef(Origin(c, vectorXml[c][i]))[1] \in OwnIds(c)}

FromInputAlone(c) ==
  [i \in 1..Len(vectorXml[c]) |->
     IF vectorXml[c][i].src = "path"
     THEN Chunk("path", vectorXml[c][i].idx,
                convertPath(Origin(c, vectorXml[c][i]), OwnRegistry(c)).text)
     ELSE IF vectorXml[c][i].src = "g" /\ bodyXml[c] = <<>>
     THEN Chunk("g", vectorXml[c][i].idx,
                handleGroup(Origin(c, vectorXml[c][i]), 1, OwnRegistry(c)).text)
     ELSE vectorXml[c][i]]

\* C4: what a call writes is determined by its input document alone,
\* whatever earlier calls left in the registry: it is the document the
\* conversion gives from an empty registry.
C4_OutputDependsOnInputOnly ==
  \A c \in CallIds :
    written[c] # <<>> => written[c][1] = Text(FromInputAlone(c))

\* A document that refers to g1 without defining it has been written after
\* an earlier call had g1 in the registry.
C4_Witness ==
  /\ written[1] # <<>>
  /\ "g1" \in everRegistered
  /\ "g1" \notin OwnIds(1)
  /\ \E i \in ChunksOf(vectorXml[1], {"path"}) : Origin(1, vectorXml[1][i]) = PathG1

\* The place of each element type in the emission order of the exported
\* converter, of the filter variant (and of the claim as stated).
RankExported == [path |-> 1, rect |-> 2, circle |-> 3, line |-> 4, g |-> 5]
RankStated == [path |-> 1, circle |-> 2, rect |-> 3, line |-> 4, g |-> 5]

\* The element chunks follow each other by rank and, within one type, in
\* document order.
InOrder(chunks, rank) ==
  \A i, j \in ChunksOf(chunks, DOMAIN rank) :
    i < j =>
      \/ rank[chunks[i].src] < rank[chunks[j].src]
      \/ chunks[i].src = chunks[j].src /\ chunks[i].idx < chunks[j].idx

C6_OnlyMalformedInputAborts ==
  \A c \in CallIds : doc[c].xml = "ok" => outcome[c] \notin {"threw", "parseError"}

\* The ids of the filter definitions of call c's document.
OwnFilterIds(c) ==
  LET defs == defsOf(Kids(c), "filter")
  IN  {defs[i].attrs["id"] : i \in {j \in 1..Len(defs) : defs[j].attrs # NoAttrs}}

\* <<id>> for an element with filter="url(#id)", <<>> for any other element.
FilterRef(el) ==
  IF Truthy(el.attrs, "filter") THEN <<SliceInner(el.attrs["filter"], 5)>> ELSE <<>>

\* C7: a path whose fill refers to an id the gradient registry does not
\* hold is emitted with the flat default fill, and an element whose filter
\* refers to an id the filter registry does not hold is converted without a
\* shadow (no shadow copy, no shadow offset).
C7_UnresolvedReferenceFallsBack ==
  \A c \in CallIds :
    /\ \A i \in ChunksOf(vectorXml[c], {"path"}) :
         (/\ FillRef(Origin(c, vectorXml[c][i])) # <<>>
          /\ FillRef(Origin(c, vectorXml[c][i]))[1] \notin OwnIds(c))
         => DefaultFill(vectorXml[c][i].text)
    /\ \A i \in ChunksOf(groupedElements[c], {"path", "circle", "rect", "line"}) :
         (/\ FilterRef(Origin(c, groupedElements[c][i])) # <<>>
          /\ FilterRef(Origin(c, groupedElements[c][i]))[1] \notin OwnFilterIds(c))
         => ~Contains(groupedElements[c][i].text, "android:translateX")

RECURSIVE Ascending(_)
\* The numbers of S in ascending order.
Ascending(S) ==
  IF S = {} THEN <<>>
  ELSE <<CHOOSE x \in S : \A y \in S : x <= y>>
       \o Ascending(S \ {CHOOSE x \in S : \A y \in S : x <= y})

\* The values of the android:offset attributes of a text, in their order.
OffsetsOf(text) ==
  LET at == Ascending(Occurrences(text, "android:offset=\""))
  IN  [k \in 1..Len(at) |-> SubSeq(text, at[k] + 16, at[k] + 15 + NonQuoteRun(text, at[k] + 16))]

\* The text holds no flat fillColor and exactly one linear gradient block
\* that has one item per stop of g, in g's order, with the stops' offsets.
RendersGradient(text, g) ==
  /\ ~Contains(text, "android:fillColor=\"")
  /\ Cardinality(Occurrences(text, "<gradient")) = 1
  /\ Contains(text, "<gradient\n                android:type=\"linear\"")
  /\ Cardinality(Occurrences(text, "<item")) = Len(ByTag(g.kids, "stop"))
  /\ OffsetsOf(text)
     = [k \in 1..Len(ByTag(g.kids, "stop")) |-> Interp(ByTag(g.kids, "stop")[k].attrs, "offset")]

\* The chunks of call c, of the given tags, whose element's fill refers to a
\* gradient c's document registers.
ResolvedRefs(c, tags) ==
  {i \in ChunksOf(vectorXml[c], tags) :
     /\ FillRef(Origin(c, vectorXml[c][i])) # <<>>
     /\ FillRef(Origin(c, vectorXml[c][i]))[1] \in DOMAIN OwnRegistry(c)}

\* The registered gradient the element of chunk i refers to.
Referred(c, i) == OwnRegistry(c)[FillRef(Origin(c, vectorXml[c][i]))[1]]

\* A gradient that convertGradient renders: its type is linear, the value
\* registration gives every linearGradient without a type attribute.
IsLinear(g) == Interp(g.attrs, "type") \in {"linear", "linearGradient"}

C9_EveryShapeRendersGradient ==
  \A c \in CallIds :
    \A i \in ResolvedRefs(c, {"path", "rect", "circle"}) :
      IsLinear(Referred(c, i)) => GradientFill(vectorXml[c][i].text)

\* The red, green and blue bytes of the named colours.
NamedRgb ==
  [white |-> <<255, 255, 255>>, black |-> <<0, 0, 0>>, red |-> <<255, 0, 0>>,
   blue |-> <<0, 0, 255>>, green |-> <<0, 255, 0>>]

\* s is # followed by exactly n hex digits, the last six of which spell the
\* bytes rgb.
HexColourOf(s, n, rgb) ==
  /\ Len(s) = n + 1
  /\ StartsWith(s, "#")
  /\ AllHex(SliceFrom(s, 1))
  /\ <<HexByte(SubSeq(s, n - 4, n - 3)), HexByte(SubSeq(s, n - 2, n - 1)),
       HexByte(SubSeq(s, n, n + 1))>> = rgb

\* convertColor has returned from a call with a string argument.
ConvertColorReturned ==
  call.fn = "convertColor" /\ call.ret # <<>> /\ call.args[1] # <<>>

Returned(fn) == call.fn = fn /\ call.ret # <<>>

\* s is # followed by exactly n hex digits.
IsHexColour(s, n) == Len(s) = n + 1 /\ StartsWith(s, "#") /\ AllHex(SliceFrom(s, 1))

\* A convertColor of either variant has returned from a call with a string
\* argument.
ColourCallReturned(fn) == Returned(fn) /\ call.args[1] # <<>>

\* C11, as stated: convertColor of SVG2XML.ts turns every #RRGGBB into
\* #FFRRGGBB and returns a colour of 8 hex digits unchanged.
C11_HexGetsOpaqueAlpha ==
  ColourCallReturned("convertColor") =>
    /\ IsHexColour(call.args[1][1], 6) => call.ret[1] = "#FF" \o SliceFrom(call.args[1][1], 1)
    /\ IsHexColour(call.args[1][1], 8) => call.ret[1] = call.args[1][1]

\* C11, amended: convertColor of SVG2XML.ts returns a colour of 6 or of 8 hex
\* digits unchanged; convertColor of the filter variant turns #RRGGBB into
\* #FFRRGGBB and returns a colour of 8 hex digits unchanged.
C11_HexPassesThrough ==
  /\ ColourCallReturned("convertColor") =>
       ((IsHexColour(call.args[1][1], 6) \/ IsHexColour(call.args[1][1], 8)) =>
          call.ret[1] = call.args[1][1])
  /\ ColourCallReturned("F_convertColor") =>
       /\ IsHexColour(call.args[1][1], 6) =>
            call.ret[1] = "#FF" \o SliceFrom(call.args[1][1], 1)
       /\ IsHexColour(call.args[1][1], 8) => call.ret[1] = call.args[1][1]

\* convertColor("#ff003C") of SVG2XML.ts has returned its argument.
C11_Witness ==
  /\ ColourCallReturned("convertColor")
  /\ call.args[1] = <<"#ff003C">>
  /\ call.ret = <<"#ff003C">>

\* The colour argument a is absent, or a token that is neither none, nor a
\* name of the table, nor a colour of 6 or 8 hex digits.
Unrecognised(a) ==
  \/ a = <<>>
  \/ /\ a[1] # "none"
     /\ a[1] \notin DOMAIN NamedRgb
     /\ ~IsHexColour(a[1], 6)
     /\ ~IsHexColour(a[1], 8)

\* C12: convertColor returns the default colour for an absent token and for
\* every token that is neither none, nor a table name, nor a colour of 6 or 8
\* hex digits (#000000 in SVG2XML.ts, #FF373737 in the filter variant).
C12_OtherTokensGetDefault ==
  /\ Returned("convertColor") /\ Unrecognised(call.args[1]) => call.ret[1] = "#000000"
  /\ Returned("F_convertColor") /\ Unrecognised(call.args[1]) => call.ret[1] = "#FF373737"

\* The text has the attribute android:<name> with the value of the element's
\* attribute k, when that value is one of the colour names.
NameVerbatim(text, a, k, name) ==
  (Has(a, k) /\ a[k] \in {"black", "red", "blue", "green"}) =>
    Contains(text, "android:" \o name \o "=\"" \o a[k] \o "\"")

\* C13: a recognised colour name given as fill or stroke of a path, circle,
\* rect or line is the value of the emitted android:fillColor or
\* android:strokeColor attribute, verbatim (fill black gives
\* android:fillColor="black").
C13_ColourNamesVerbatim ==
  \A c \in CallIds :
    \A i \in ChunksOf(vectorXml[c], {"path", "circle", "rect", "line"}) :
      /\ NameVerbatim(vectorXml[c][i].text, Origin(c, vectorXml[c][i]).attrs,
                      "fill", "fillColor")
      /\ NameVerbatim(vectorXml[c][i].text, Origin(c, vectorXml[c][i]).attrs,
                      "stroke", "strokeColor")

\* The opacity string is, as a whole, a number in [0, 1].
UnitOpacity(opacity) ==
  /\ ~ParseFloat(opacity).nan
  /\ ~ToNumber(opacity).nan
  /\ ToNumber(opacity).v >= 0
  /\ ToNumber(opacity).v <= Scale

\* The two hex digits aa spell round(o * 255): the integer k with
\* k - 1/2 <= o * 255 < k + 1/2, o in units.
IsAlphaOf(aa, o) ==
  /\ Len(aa) = 2
  /\ AllHex(aa)
  /\ 510 * o - 2 * HexByte(aa) * Scale >= -Scale
  /\ 510 * o - 2 * HexByte(aa) * Scale < Scale

\* convertColorWithOpacity has returned from a call with the colour and
\* the opacity.
WithOpacityReturned(color, opacity) ==
  /\ Returned("convertColorWithOpacity")
  /\ call.args = <<<<color>>, opacity>>
  /\ ~call.ret[1].threw

\* C14: for a colour #RRGGBB and an opacity o in [0, 1],
\* convertColorWithOpacity returns # AA RRGGBB, AA being round(o * 255) in
\* exactly two hex digits: 00 for 0, 80 for 0.5, ff for 1.
C14_AlphaIsRoundedOpacity ==
  (/\ Returned("convertColorWithOpacity")
   /\ call.args[1] # <<>>
   /\ IsHexColour(call.args[1][1], 6)
   /\ UnitOpacity(call.args[2])) =>
    /\ ~call.ret[1].threw
    /\ Len(call.ret[1].text) = 9
    /\ StartsWith(call.ret[1].text, "#")
    /\ IsAlphaOf(SubSeq(call.ret[1].text, 2, 3), ToNumber(call.args[2]).v)
    /\ SliceFrom(call.ret[1].text, 3) = SliceFrom(call.args[1][1], 1)
    /\ call.args[2] = "0" => SubSeq(call.ret[1].text, 2, 3) = "00"
    /\ call.args[2] = "0.5" => SubSeq(call.ret[1].text, 2, 3) = "80"
    /\ call.args[2] = "1" => SubSeq(call.ret[1].text, 2, 3) = "ff"

\* convertColorWithOpacity("#ff0000", "0.5") has returned #80ff0000.
C14_Witness ==
  /\ WithOpacityReturned("#ff0000", "0.5")
  /\ call.ret[1].text = "#80ff0000"

\* The three channel strings of rgb(r,g,b), <<>> for any other string.
RgbChannels(s) ==
  IF StartsWith(s, "rgb(") /\ EndsWith(s, ")") /\ Len(Split(SubSeq(s, 5, Len(s) - 1), ",")) = 3
  THEN Split(SubSeq(s, 5, Len(s) - 1), ",")
  ELSE <<>>

\* s is rgb(r,g,b) with three whole numbers in 0..255.
IsRgbFunction(s) ==
  /\ RgbChannels(s) # <<>>
  /\ \A i \in 1..3 :
       /\ ~ParseFloat(RgbChannels(s)[i]).nan
       /\ ~ToNumber(RgbChannels(s)[i]).nan
       /\ ToNumber(RgbChannels(s)[i]).v % Scale = 0
       /\ ToNumber(RgbChannels(s)[i]).v \div Scale \in 0..255

\* A well-formed colour: shorthand hex, 6-digit hex or rgb(r,g,b).
WellFormedColour(s) == IsHexColour(s, 3) \/ IsHexColour(s, 6) \/ IsRgbFunction(s)

\* The red, green and blue bytes of a well-formed colour.
ColourBytes(s) ==
  IF IsHexColour(s, 3)
  THEN <<17 * HexVal(Char(s, 2)), 17 * HexVal(Char(s, 3)), 17 * HexVal(Char(s, 4))>>
  ELSE IF IsHexColour(s, 6)
  THEN <<HexByte(SubSeq(s, 2, 3)), HexByte(SubSeq(s, 4, 5)), HexByte(SubSeq(s, 6, 7))>>
  ELSE [i \in 1..3 |-> ToNumber(RgbChannels(s)[i]).v \div Scale]

\* C15: for every well-formed colour (shorthand hex, 6-digit hex or
\* rgb(r,g,b)) and every opacity in [0, 1], convertColorWithOpacity returns #
\* and exactly 8 hex digits: the alpha byte, then the red, green and blue
\* bytes of the colour.
C15_EveryColourGetsEightDigits ==
  (/\ Returned("convertColorWithOpacity")
   /\ call.args[1] # <<>>
   /\ WellFormedColour(call.args[1][1])
   /\ UnitOpacity(call.args[2])) =>
    /\ ~call.ret[1].threw
    /\ HexColourOf(call.ret[1].text, 8, ColourBytes(call.args[1][1]))
    /\ IsAlphaOf(SubSeq(call.ret[1].text, 2, 3), ToNumber(call.args[2]).v)

\* C16: convertColorWithOpacity never throws, and for a colour that is
\* neither a valid hex colour nor an rgb(...) form, or an opacity string
\* that is not a number, it returns the colour argument as it was given.
C16_MalformedInputComesBack ==
  Returned("convertColorWithOpacity") =>
    /\ ~call.ret[1].threw
    /\ (/\ call.args[1] # <<>>
        /\ ~WellFormedColour(call.args[1][1]) \/ ParseFloat(call.args[2]).nan) =>
         call.ret[1].text = call.args[1][1]

\* The angles a for which the transform t is rotate(a x): an angle and only
\* one further number.
PartialPivotAngles(t) ==
  {a \in {"45", "30", "10", "-90"} :
     \E sp \in {" ", ",", ", "}, x \in {"10", "5", "1"} : t = "rotate(" \o a \o sp \o x \o ")"}

\* Neither pivot is defined.
NoPivot(r) == r.pivotX = <<>> /\ r.pivotY = <<>>

\* C17, as stated: in every result of processTransform pivotX is defined if
\* and only if pivotY is; rotate(a x) yields the result of rotate(a), the
\* parsed angle and no pivot.
C17_PartialPivotKeepsAngle ==
  Returned("processTransform") =>
    /\ (call.ret[1].pivotX # <<>>) <=> (call.ret[1].pivotY # <<>>)
    /\ \A a \in PartialPivotAngles(call.args[1]) :
         call.ret[1].rotation = ParseFloat(a) /\ NoPivot(call.ret[1])

\* C17, amended: ... rotate(a x) is not recognised at all and yields
\* rotation 0 and no pivot, the result of a transform without rotate.
C17_PartialPivotDropsRotation ==
  Returned("processTransform") =>
    /\ (call.ret[1].pivotX # <<>>) <=> (call.ret[1].pivotY # <<>>)
    /\ PartialPivotAngles(call.args[1]) # {} =>
         call.ret[1].rotation = Num(0) /\ NoPivot(call.ret[1])

\* processTransform("rotate(45 10)") has returned rotation 0 and no pivot.
C17_Witness ==
  /\ Returned("processTransform")
  /\ call.args = <<"rotate(45 10)">>
  /\ call.ret[1].rotation = Num(0)
  /\ NoPivot(call.ret[1])

\* The text is one <group android:rotation=...> element.
Wrapped(text) ==
  /\ StartsWith(text, "    <group\n        android:rotation=\"")
  /\ EndsWith(text, "    </group>\n")

\* The attributes carry a transform whose parsed rotation is not 0.
Rotated(a) == Truthy(a, "transform") /\ processTransform(a["transform"]).rotation # Num(0)

\* C18: path, rect, circle and line alike are wrapped in a
\* <group android:rotation=...> element exactly when they carry a transform
\* whose parsed rotation is not 0.
C18_RotatedShapesAreWrapped ==
  (/\ call.fn \in {"convertPath", "convertRect", "convertCircle", "convertLine"}
   /\ call.ret # <<>>
   /\ ~call.ret[1].threw) =>
    (Wrapped(call.ret[1].text) <=> Rotated(call.args[1].attrs))

\* The value of the first attribute `name` in an element's text.
AttrValue(text, name) ==
  LET Of(start, quotes) == SubSeq(text, start, First({j \in quotes : j >= start}) - 1)
  IN  Of(First(Occurrences(text, name \o "=\"")) + Len(name) + 2, Occurrences(text, "\""))

\* The point whose coordinates are the tokens i and i + 1, in units.
PointAt(tok, i) == <<ParseFloat(tok[i]).v, ParseFloat(tok[i + 1]).v>>

\* 0.552285 times a vector of whole coordinates, in units.
KappaTimes(p) == <<(p[1] \div Scale) * Kappa, (p[2] \div Scale) * Kappa>>

Plus(p, q) == <<p[1] + q[1], p[2] + q[2]>>
Minus(p, q) == <<p[1] - q[1], p[2] - q[2]>>

\* The tokens are M start, four segments C c1 c2 end, and Z; the segments
\* end at the points ends, in order, and each control point lies 0.552285
\* times the radius from the end point next to it, along the tangent: c1 is
\* start + 0.552285 (end - centre) and c2 is end + 0.552285 (start - centre).
IsCircleOutline(tok, centre, start, ends) ==
  LET From(s) == IF s = 1 THEN start ELSE ends[s - 1]
  IN  /\ Len(tok) = 32
      /\ tok[1] = "M"
      /\ PointAt(tok, 2) = start
      /\ \A s \in 1..4 :
           /\ tok[7 * s - 3] = "C"
           /\ PointAt(tok, 7 * s + 2) = ends[s]
           /\ PointAt(tok, 7 * s - 2) = Plus(From(s), KappaTimes(Minus(ends[s], centre)))
           /\ PointAt(tok, 7 * s) = Plus(ends[s], KappaTimes(Minus(From(s), centre)))
      /\ \A i \in 2..31 : i % 7 # 4 => ~ParseFloat(tok[i]).nan
      /\ tok[32] = "Z"
      /\ ends[4] = start

\* The circle has a numeric centre and a whole, numeric radius.
PlainCircle(a) ==
  /\ a # NoAttrs
  /\ ~FloatAttr(a, "cx").nan /\ ~FloatAttr(a, "cy").nan /\ ~FloatAttr(a, "r").nan
  /\ FloatAttr(a, "r").v % Scale = 0

TwoArcs(cx, cy, r) ==
  "M " \o N(NumSub(cx, r)) \o "," \o N(cy)
  \o " A " \o N(r) \o "," \o N(r) \o " 0 1 0 " \o N(NumAdd(cx, r)) \o "," \o N(cy)
  \o " A " \o N(r) \o "," \o N(r) \o " 0 1 0 " \o N(NumSub(cx, r)) \o "," \o N(cy)

\* C20: a circle with centre (cx, cy) and radius r is emitted as a path with
\* the data M (cx - r),cy A r,r 0 1 0 (cx + r),cy A r,r 0 1 0 (cx - r),cy,
\* and its stroke-width is copied to android:strokeWidth.
C20_CircleIsTwoArcs ==
  (Returned("convertCircle") /\ PlainCircle(call.args[1].attrs)) =>
    /\ ~call.ret[1].threw
    /\ AttrValue(call.ret[1].text, "android:pathData")
         = TwoArcs(FloatAttr(call.args[1].attrs, "cx"), FloatAttr(call.args[1].attrs, "cy"),
                   FloatAttr(call.args[1].attrs, "r"))
    /\ Truthy(call.args[1].attrs, "stroke-width") =>
         /\ Contains(call.ret[1].text, "android:strokeWidth=\"")
         /\ AttrValue(call.ret[1].text, "android:strokeWidth") = call.args[1].attrs["stroke-width"]

\* The number token i stands for.
NumAt(tok, i) == ParseFloat(tok[i])

\* The tokens i and i + 1 are the coordinates of the point p.
IsPoint(tok, i, p) == NumAt(tok, i) = p[1] /\ NumAt(tok, i + 1) = p[2]

\* The tokens are M x y h width v height h -width Z.
IsSquareOutline(tok, x, y, width, height) ==
  /\ Len(tok) = 10
  /\ tok[1] = "M" /\ IsPoint(tok, 2, <<x, y>>)
  /\ tok[4] = "h" /\ NumAt(tok, 5) = width
  /\ tok[6] = "v" /\ NumAt(tok, 7) = height
  /\ tok[8] = "h" /\ NumAt(tok, 9) = NumNeg(width)
  /\ tok[10] = "Z"

\* The tokens are M start, then four times L edge Q corner turn, then Z:
\* edges[s] is where straight edge s ends, corners[s] the control point of
\* the curve after it and turns[s] where that curve ends.
IsRoundedOutline(tok, start, edges, corners, turns) ==
  /\ Len(tok) = 36
  /\ tok[1] = "M" /\ IsPoint(tok, 2, start)
  /\ \A s \in 1..4 :
       /\ tok[8 * s - 4] = "L" /\ IsPoint(tok, 8 * s - 3, edges[s])
       /\ tok[8 * s - 1] = "Q" /\ IsPoint(tok, 8 * s, corners[s])
       /\ IsPoint(tok, 8 * s + 2, turns[s])
  /\ tok[36] = "Z"
  /\ turns[4] = start

\* The outline of the rectangle with the corners (x, y) and (xw, yh) and
\* the corner radii rx and ry: square when both radii are 0, otherwise
\* clockwise from (x + rx, y) over the corners (xw, y), (xw, yh), (x, yh)
\* and (x, y).
IsRectOutline(tok, x, y, width, height, rx, ry, xw, yh) ==
  IF rx = Num(0) /\ ry = Num(0)
  THEN IsSquareOutline(tok, x, y, width, height)
  ELSE IsRoundedOutline(tok, <<NumAdd(x, rx), y>>,
         <<<<NumSub(xw, rx), y>>, <<xw, NumSub(yh, ry)>>, <<NumAdd(x, rx), yh>>,
           <<x, NumAdd(y, ry)>>>>,
         <<<<xw, y>>, <<xw, yh>>, <<x, yh>>, <<x, y>>>>,
         <<<<xw, NumAdd(y, ry)>>, <<NumSub(xw, rx), yh>>, <<x, NumSub(yh, ry)>>,
           <<NumAdd(x, rx), y>>>>)

\* The number an attribute stands for, or dflt when it is absent or empty.
AttrOr(a, k, dflt) == IF Truthy(a, k) THEN ParseFloat(a[k]) ELSE dflt

CompactRect(a) ==
  "M" \o OrElse(a, "x", "0") \o " " \o OrElse(a, "y", "0")
  \o " h" \o Interp(a, "width") \o " v" \o Interp(a, "height")
  \o " h-" \o Interp(a, "width") \o " z"

\* C22: a rect without corner radii is emitted with the path data
\* M<x> <y> h<width> v<height> h-<width> z, for x = 10, y = 10, width = 80
\* and height = 80 with M10 10 h80 v80 h-80 z.
C22_RectIsCompact ==
  (/\ Returned("convertRect")
   /\ call.args[1].attrs # NoAttrs
   /\ ~Truthy(call.args[1].attrs, "rx")
   /\ ~Truthy(call.args[1].attrs, "ry")) =>
    /\ ~call.ret[1].threw
    /\ AttrValue(call.ret[1].text, "android:pathData") = CompactRect(call.args[1].attrs)
    /\ call.args[1] = RectBlue =>
         AttrValue(call.ret[1].text, "android:pathData") = "M10 10 h80 v80 h-80 z"

\* The text is one self-closing <path .. /> element.
IsOnePath(text) ==
  /\ StartsWith(text, "    <path\n")
  /\ EndsWith(text, " />\n")
  /\ Cardinality(Occurrences(text, "<path")) = 1
  /\ Cardinality(Occurrences(text, "/>")) = 1

\* The line has its four coordinates.
HasEnds(a) == a # NoAttrs /\ \A k \in {"x1", "y1", "x2", "y2"} : Has(a, k)

DropShadowIds(c) ==
  LET defs == defsOf(Kids(c), "filter")
  IN  {defs[i].attrs["id"] :
         i \in {j \in 1..Len(defs) :
                  /\ defs[j].attrs # NoAttrs
                  /\ Len(ByTag(defs[j].kids, "feDropShadow")) > 0}}

\* The top-level elements of the tags that the filter variant has converted
\* for call c and that refer to a filter of the ids, as chunk indices.
Filtered(c, tags, ids) ==
  {i \in ChunksOf(groupedElements[c], tags) :
     /\ FilterRef(Origin(c, groupedElements[c][i])) # <<>>
     /\ FilterRef(Origin(c, groupedElements[c][i]))[1] \in ids}

\* The first element of a text, up to and including its first />.
FirstElement(text) == SubSeq(text, 1, First(Occurrences(text, "/>")) + 1)

\* What follows the first element of a text.
AfterFirstElement(text) == SubSeq(text, First(Occurrences(text, "/>")) + 2, Len(text))

\* The text is a shadow copy right before a primary element: two elements
\* with the same path data and different fill colours, the first one
\* translated and the second one not.
IsShadowThenPrimary(text) ==
  /\ Cardinality(Occurrences(text, "/>")) = 2
  /\ \A shadow \in {FirstElement(text)} :
       \A primary \in {AfterFirstElement(text)} :
         /\ Contains(shadow, "android:translateX=\"")
         /\ Contains(shadow, "android:translateY=\"")
         /\ ~Contains(primary, "android:translate")
         /\ Contains(shadow, "android:pathData=\"")
         /\ Contains(primary, "android:pathData=\"")
         /\ AttrValue(shadow, "android:pathData") = AttrValue(primary, "android:pathData")
         /\ Contains(shadow, "android:fillColor=\"")
         /\ Contains(primary, "android:fillColor=\"")
         /\ AttrValue(shadow, "android:fillColor") # AttrValue(primary, "android:fillColor")

\* C24: for a top-level circle with filter="url(#id)", id a registered
\* filter with a drop shadow, the written output holds exactly two elements
\* for the circle, the shadow copy right before the primary one, with the
\* same geometry, different fill colours, and only the shadow translated.
C24_FilteredCircleHasShadowCopy ==
  \A c \in CallIds :
    written[c] # <<>> =>
      \A i \in Filtered(c, {"circle"}, DropShadowIds(c)) :
        /\ Contains(written[c][1], groupedElements[c][i].text)
        /\ IsShadowThenPrimary(groupedElements[c][i].text)

\* The four shape tags.
ShapeTags == {"path", "circle", "rect", "line"}

GroupShapeTags == {"path", "circle", "rect"}

\* The element is a shape with a transform whose rotation is not 0.
IsRotatedShape(el) ==
  el.tag \in GroupShapeTags /\ el.attrs # NoAttrs /\ Rotated(el.attrs)

RECURSIVE GroupPairs(_)
\* The pairs of group tags the elements call for: one per <g>, at any
\* depth, and one per rotated shape.
GroupPairs(els) ==
  IF Len(els) = 0 THEN 0
  ELSE (IF els[1].tag = "g" THEN 1 + GroupPairs(els[1].kids)
        ELSE IF IsRotatedShape(els[1]) THEN 1
        ELSE 0)
       + GroupPairs(Tail(els))

RECURSIVE ShapeDepths(_, _)
\* The number of group tags around each shape below a <g> that lies
\* inside d groups, in the order of the walk: the paths, circles and rects
\* of the group, then its inner groups.
ShapeDepths(g, d) ==
  LET Own(tag) ==
        [i \in 1..Len(ByTag(g.kids, tag)) |->
           d + 1 + (IF IsRotatedShape(ByTag(g.kids, tag)[i]) THEN 1 ELSE 0)]
      RECURSIVE Inner(_)
      Inner(gs) == IF Len(gs) = 0 THEN <<>> ELSE ShapeDepths(gs[1], d + 1) \o Inner(Tail(gs))
  IN  Own("path") \o Own("circle") \o Own("rect") \o Inner(ByTag(g.kids, "g"))

\* How many group tags are open at position p of a text.
OpenAt(text, p) ==
  Cardinality({i \in Occurrences(text, "<group") : i < p})
  - Cardinality({i \in Occurrences(text, "</group>") : i < p})

\* The text holds n pairs of group tags, properly nested, and its shapes
\* lie as deep in them as depths says, in that order.
IsGroupBlock(text, n, depths) ==
  /\ Cardinality(Occurrences(text, "<group")) = n
  /\ Cardinality(Occurrences(text, "</group>")) = n
  /\ \A p \in Occurrences(text, "</group>") : OpenAt(text, p) > 0
  /\ \A at \in {Ascending(Occurrences(text, "android:pathData=\""))} :
       /\ Len(at) = Len(depths)
       /\ \A k \in 1..Len(at) : OpenAt(text, at[k]) = depths[k]

\* The chunks the group walker has emitted for call c, of either converter.
GroupChunks(c) ==
  {vectorXml[c][i] : i \in ChunksOf(vectorXml[c], {"g"})}
  \cup {bodyXml[c][i] : i \in ChunksOf(bodyXml[c], {"g"})}

\* C26: the output of handleGroup for a tree of <g> elements holds one
\* <group ..> and one </group> per <g> and one pair per child shape with a
\* rotation other than 0, properly nested, every shape between the tags of
\* all the groups above it, in depth-first order.
C26_GroupTagsMatchTree ==
  \A c \in CallIds :
    \A ch \in GroupChunks(c) :
      IsGroupBlock(ch.text, GroupPairs(<<Origin(c, ch)>>), ShapeDepths(Origin(c, ch), 0))

\* C27: in the filter variant every top-level path, circle, rect and line
\* of the input has its converted element, shadow copy included, in the
\* written document.
C27_TopLevelShapesAreWritten ==
  \A c \in CallIds :
    written[c] # <<>> =>
      \A i \in ChunksOf(groupedElements[c], ShapeTags) :
        /\ groupedElements[c][i].text # ""
        /\ Contains(written[c][1], groupedElements[c][i].text)

RECURSIVE Below(_, _)
\* The elements of the tags at any depth below the elements els.
Below(els, tags) ==
  IF Len(els) = 0 THEN {}
  ELSE (IF els[1].tag \in tags THEN {els[1]} ELSE {})
       \cup (IF els[1].tag = "g" THEN Below(els[1].kids, tags) ELSE {})
       \cup Below(Tail(els), tags)

\* The path data a line would be drawn with.
LineData(a) ==
  "M" \o Interp(a, "x1") \o "," \o Interp(a, "y1")
  \o " L" \o Interp(a, "x2") \o "," \o Interp(a, "y2")

\* The path data of a path, a circle or a rect.
ShapeData(el) ==
  IF el.tag = "path" THEN Interp(el.attrs, "d")
  ELSE IF el.tag = "circle" THEN circleData(el.attrs)
  ELSE rectData(el.attrs)

\* The group chunks of call c of the exported converter.
ExportedGroupChunks(c) ==
  IF bodyXml[c] = <<>> THEN {vectorXml[c][i] : i \in ChunksOf(vectorXml[c], {"g"})} ELSE {}

\* C28: a <line> inside a <g> leaves no element in the output, while the
\* path, circle and rect children of the group are each emitted inside the
\* group's <group> block.
C28_LinesInGroupsAreDropped ==
  \A c \in CallIds :
    \A ch \in ExportedGroupChunks(c) :
      /\ StartsWith(ch.text, "    <group")
      /\ EndsWith(ch.text, "    </group>\n")
      /\ \A l \in Below(Origin(c, ch).kids, {"line"}) :
           l.attrs # NoAttrs => ~Contains(ch.text, LineData(l.attrs))
      /\ \A s \in Below(Origin(c, ch).kids, GroupShapeTags) :
           Contains(ch.text, "android:pathData=\"" \o ShapeData(s) \o "\"")
      /\ Cardinality(Occurrences(ch.text, "<path"))
           = Len(ShapeDepths(Origin(c, ch), 0))

\* The exported converter has emitted a group that holds a line, a circle,
\* a path and a rect: three elements, none of them the line.
C28_Witness ==
  \E ch \in ExportedGroupChunks(1) :
    /\ Origin(1, ch) = Layer(<<LineRed, CircleRed, PathBlack, RectBlue>>)
    /\ Cardinality(Occurrences(ch.text, "<path")) = 3
    /\ ~Contains(ch.text, "M10,10 L90,90")
    /\ Contains(ch.text, "android:pathData=\"M10 10 H 90 V 90 H 10 L 10 10\"")

\* The value of the attribute of a start tag whose name is exactly `name`
\* (the name follows a blank), or '100' when the tag has no such attribute.
DimensionOf(svgData, name) ==
  IF Contains(svgData, " " \o name \o "=\"") THEN AttrValue(svgData, " " \o name) ELSE "100"

\* C30: getSvgDimensions returns the values of the width and of the height
\* attribute of the content, '100' for one that is not present; an
\* attribute whose name only ends in width or height, such as
\* stroke-width, is not taken for it.
C30_DimensionsAreTheAttributes ==
  Returned("getSvgDimensions") =>
    /\ call.ret[1].width = DimensionOf(call.args[1], "width")
    /\ call.ret[1].height = DimensionOf(call.args[1], "height")

\* The files createFilesForSvg writes for the entry X.svg are there.
IsGenerated(d, outputFolder, svgFile) ==
  \A x \in {BaseName(svgFile)} :
    /\ IsFile(d, Join(Join(outputFolder, x), x \o ".svg"))
    /\ IsFile(d, Join(Join(outputFolder, x), x \o ".tsx"))
    /\ IsFile(d, Join(Join(outputFolder, x), "index.ts"))
    /\ IsFile(d, Join(outputFolder, "Lazy" \o x \o ".tsx"))

\* The first run of processSvgs has returned without an exception.
FirstRunDone == job.runs >= 1 /\ job.outcomes[1] = "ok"

\* C29: when processSvgs has returned, every .svg file that was directly in
\* inputFolder is in inputFolder/origin-svgs, is gone from inputFolder, and
\* has its four generated files; during and after a second run on the same
\* folders the disk is the one the second run started with.
C29_RunMovesAndSecondRunIsIdle ==
  /\ (FirstRunDone /\ job.runs = 1 /\ job.pc = "idle") =>
       \A f \in job.found :
         /\ IsFile(disk, Join(Join(job.inputFolder, "origin-svgs"), f))
         /\ ~IsFile(disk, Join(job.inputFolder, f))
         /\ IsGenerated(disk, job.outputFolder, f)
  /\ (FirstRunDone /\ (job.runs = 2 \/ (job.runs = 1 /\ job.pc = "loop"))) =>
       disk = job.before

====
